---- MODULE Spec2Model ----
(***************************************************************************)
(* Model of the OLAP analyzers of try_parquet.                             *)
(*                                                                         *)
(*  - Spec    : one call of a hand-rolled Arrow aggregation                 *)
(*              (AnalyzeCustomerSegments or MultidimensionalAnalysis) on   *)
(*              loaded tables: lookup construction, the fact scan row by   *)
(*              row, and the emission of the result rows.                  *)
(*  - SpecRun : RunAllAnalyses of the Arrow and of the DuckDB analyzer:    *)
(*              loading the five tables, PrintDataInfo, the analyses.      *)
(*  - SpecSchema : the Arrow aggregations on tables in which one fetched   *)
(*              column is absent or holds another type than the cast.      *)
(*  - SpecLimit : PrintTable with a row limit on a chunked table, and the  *)
(*              top-N countries query of the DuckDB analyzer.              *)
(*  - SpecBackends : the customer-segment and region x category analyses   *)
(*              of both analyzers on the same tables.                      *)
(*  - SpecTwice : an Arrow aggregation called twice on the same tables.    *)
(*  - SpecCanonical : the time, geography and product analyses of the      *)
(*              Arrow analyzer on tables with a time dimension.            *)
(*  - SpecConcurrent : AnalyzeCustomerSegments and                         *)
(*              MultidimensionalAnalysis interleaved on one analyzer.      *)
(*  - SpecLoaded : a sequence of calls of the operations of a loaded       *)
(*              Arrow analyzer, JoinTables and PrintDataInfo included.     *)
(*  - SpecWindows : the quarterly and monthly LIMIT queries of the DuckDB  *)
(*              analyzer.                                                  *)
(*                                                                         *)
(* Doubles are modelled by integers (all sums in the model are exact).     *)
(***************************************************************************)
EXTENDS Integers, Sequences, FiniteSets, TLC

\* ------------------------------------------------------------------------
\* Bounds of the model
\* ------------------------------------------------------------------------
MaxDimRows == 2
MaxFactRows == 2
MaxRowLimit == 3

Keys == {1, 2}
CustomerTypes == {"Corporate", "Retail"}
Regions == {"East", "West"}
Categories == {"A", "B"}
Countries == {"DE", "FR"}

\* gross_sales / profit carried by the j-th fact row when it is not null;
\* distinct rows carry values whose subset sums are pairwise distinct.
SaleOf(j) == IF j = 1 THEN 10 ELSE IF j = 2 THEN 5 ELSE 5 * (2 ^ (j - 1))
ProfitOf(j) == 2 ^ (j - 1)

\* ------------------------------------------------------------------------
\* Arrow scalars, arrays and tables
\* ------------------------------------------------------------------------
\* arrow::Scalar: a validity flag and a value (the value of a null scalar
\* is never read by the code).
NullInt == [is_valid |-> FALSE, value |-> 0]
IntScalar(v) == [is_valid |-> TRUE, value |-> v]
NullDouble == [is_valid |-> FALSE, value |-> 0]
DoubleScalar(v) == [is_valid |-> TRUE, value |-> v]
NullString == [is_valid |-> FALSE, value |-> ""]
StringScalar(s) == [is_valid |-> TRUE, value |-> s]

IntScalars(S) == {NullInt} \cup {IntScalar(v) : v \in S}
StringScalars(S) == {NullString} \cup {StringScalar(s) : s \in S}

\* A table is a sequence of rows, a row a record of scalars by column name.
\* array->GetScalar(i), i counted from 0 as in the source.
GetScalar(array, i) == array[i + 1]

\* ------------------------------------------------------------------------
\* std::map / std::unordered_map
\* ------------------------------------------------------------------------
EmptyMap == [x \in {} |-> 0]

\* m[k] = v
Put(m, k, v) == [x \in (DOMAIN m) \cup {k} |-> IF x = k THEN v ELSE m[x]]

\* m[k] read through operator[]: a missing key is value-initialised to d.
At(m, k, d) == IF k \in DOMAIN m THEN m[k] ELSE d

\* Variant of Find that finds a value-initialised entry for a missing key,
\* as a lookup through operator[] would.
FindValueInitialised(m, k) ==
    IF k \in DOMAIN m THEN [found |-> TRUE, second |-> m[k]]
                      ELSE [found |-> TRUE, second |-> ""]

\* m.find(k): found = (it != m.end()), second = it->second.
Find(m, k) ==
    IF k \in DOMAIN m THEN [found |-> TRUE, second |-> m[k]]
                      ELSE [found |-> FALSE, second |-> ""]

\* std::accumulate(v.begin(), v.end(), 0.0)
RECURSIVE Accumulate(_)
Accumulate(v) == IF v = <<>> THEN 0 ELSE v[1] + Accumulate(Tail(v))

\* ------------------------------------------------------------------------
\* std::string comparison: lexicographic over the characters
\* ------------------------------------------------------------------------
Chars ==
    [s \in {"", "A", "B", "Corporate", "East", "Retail", "West", "unknown"} |->
        CASE s = "" -> <<>>
          [] s = "A" -> <<65>>
          [] s = "B" -> <<66>>
          [] s = "Corporate" -> <<67, 111, 114, 112, 111, 114, 97, 116, 101>>
          [] s = "East" -> <<69, 97, 115, 116>>
          [] s = "Retail" -> <<82, 101, 116, 97, 105, 108>>
          [] s = "West" -> <<87, 101, 115, 116>>
          [] s = "unknown" -> <<117, 110, 107, 110, 111, 119, 110>>]

RECURSIVE LexLess(_, _)
LexLess(a, b) ==
    IF b = <<>> THEN FALSE
    ELSE IF a = <<>> THEN TRUE
    ELSE IF a[1] # b[1] THEN a[1] < b[1]
    ELSE LexLess(Tail(a), Tail(b))

\* a < b on std::string
StringLess(a, b) == LexLess(Chars[a], Chars[b])

\* a < b on std::pair<std::string, std::string>
PairLess(a, b) ==
    \/ StringLess(a[1], b[1])
    \/ (a[1] = b[1] /\ StringLess(a[2], b[2]))

\* The keys of a std::map<std::string, _> in iteration order.
RECURSIVE StringKeysInOrder(_)
StringKeysInOrder(S) ==
    IF S = {} THEN <<>>
    ELSE LET least == CHOOSE a \in S : \A b \in S \ {a} : StringLess(a, b)
         IN  <<least>> \o StringKeysInOrder(S \ {least})

\* The keys of a std::map<std::pair<std::string, std::string>, _> in
\* iteration order.
RECURSIVE PairKeysInOrder(_)
PairKeysInOrder(S) ==
    IF S = {} THEN <<>>
    ELSE LET least == CHOOSE a \in S : \A b \in S \ {a} : PairLess(a, b)
         IN  <<least>> \o PairKeysInOrder(S \ {least})

\* ------------------------------------------------------------------------
\* State
\* ------------------------------------------------------------------------
VARIABLES
    analysis,               \* the aggregation being executed
    sales_table,            \* sales_table_
    customer_table,         \* customer_table_
    geography_table,        \* geography_table_
    product_table,          \* product_table_
    time_table,             \* time_table_
    schema,                 \* columns absent from / mistyped in the tables
    status,                 \* arrow::Status returned by the aggregation
    pc,                     \* position inside the aggregation
    i,                      \* loop index of the fact scan
    cust_to_type,
    geo_to_region,
    prod_to_category,
    type_sales,
    type_profit,
    unique_customers,
    order_counts,
    region_category_sales,
    sorted_results,
    printed,                \* header and rows written to std::cout
    backend,                \* the analyzer whose RunAllAnalyses is executed
    run_pc,                 \* position inside RunAllAnalyses
    attempted,              \* tables whose load / registration was attempted
    loaded,                 \* tables set (Arrow) or views registered (DuckDB)
    calls,                  \* PrintDataInfo and analyses started, in order
    failed,                 \* analyses in which a step failed
    returned,               \* what each analysis started gave back, in order
    result,                 \* value returned by RunAllAnalyses
    duckdb_printed,         \* table written by the DuckDB analysis of the same tables
    row_limit,              \* max_rows of PrintTable / LIMIT of the query
    chunks,                 \* chunk lengths of the table given to PrintTable
    runs,                   \* calls of the aggregation made so far
    previous,               \* output of the previous call of the aggregation
    suspended               \* registers of the thread that is not running

aggVars == <<analysis, sales_table, customer_table, geography_table,
             product_table, time_table, schema, status, pc, i, cust_to_type, geo_to_region,
             prod_to_category, type_sales, type_profit, unique_customers,
             order_counts, region_category_sales, sorted_results, printed>>

tables == <<sales_table, customer_table, geography_table, product_table,
            time_table, schema>>

\* The table held by a member of the analyzer.
TableOf(table) ==
    CASE table = "sales_table_" -> sales_table
      [] table = "customer_table_" -> customer_table
      [] table = "geography_table_" -> geography_table
      [] table = "product_table_" -> product_table
      [] table = "time_table_" -> time_table

\* Variant of GetColumnAsArray that returns an empty array for a column
\* that is not found.
GetColumnAsArrayEmptyIfMissing(table, column_name) ==
    IF <<table, column_name>> \in schema.absent
    THEN [ok |-> TRUE, value |-> <<>>]
    ELSE [ok |-> TRUE,
          value |-> [j \in 1..Len(TableOf(table)) |-> TableOf(table)[j][column_name]]]

\* GetColumnAsArray: Status::Invalid when GetColumnByName finds no column of
\* that name, else the column as a single array.  The cells of a mistyped
\* column hold what the static_pointer_cast of the scans reads from them.
GetColumnAsArray(table, column_name) ==
    IF <<table, column_name>> \in schema.absent
    THEN [ok |-> FALSE, value |-> <<>>]
    ELSE [ok |-> TRUE,
          value |-> [j \in 1..Len(TableOf(table)) |-> TableOf(table)[j][column_name]]]

\* The columns an aggregation fetches, in the order of its
\* ARROW_ASSIGN_OR_RAISE lines.
CustomerColumns ==
    <<<<"sales_table_", "customer_key">>, <<"sales_table_", "gross_sales">>,
      <<"sales_table_", "profit">>, <<"customer_table_", "customer_key">>,
      <<"customer_table_", "customer_type">>>>
MultiColumns ==
    <<<<"sales_table_", "geography_key">>, <<"sales_table_", "product_key">>,
      <<"sales_table_", "gross_sales">>, <<"geography_table_", "geography_key">>,
      <<"geography_table_", "region">>, <<"product_table_", "product_key">>,
      <<"product_table_", "category">>>>

\* ARROW_ASSIGN_OR_RAISE over the columns: the status of the first
\* GetColumnAsArray that fails, OK when none does.
AssignOrRaise(columns) ==
    IF \E n \in 1..Len(columns) : ~GetColumnAsArray(columns[n][1], columns[n][2]).ok
    THEN "Invalid" ELSE "OK"

runVars == <<backend, run_pc, attempted, loaded, calls, failed, returned, result>>

cmpVars == <<duckdb_printed, row_limit, chunks, runs, previous, suspended>>

vars == <<aggVars, runVars, cmpVars>>

\* ------------------------------------------------------------------------
\* Input tables
\* ------------------------------------------------------------------------
SeqsUpTo(S, n) == UNION {[1..k -> S] : k \in 0..n}

CustomerRows ==
    [customer_key : IntScalars(Keys), customer_type : StringScalars(CustomerTypes)]
GeographyRows ==
    [geography_key : IntScalars(Keys), region : StringScalars(Regions)]
ProductRows ==
    [product_key : IntScalars(Keys), category : StringScalars(Categories)]

\* The j-th row of fact_sales: three foreign keys and two measures;
\* okSales / okProfit tell whether the measure is non-null.
FactRow(j, ck, gk, pk, okSales, okProfit) ==
    [customer_key |-> ck, geography_key |-> gk, product_key |-> pk,
     gross_sales |-> IF okSales THEN DoubleScalar(SaleOf(j)) ELSE NullDouble,
     profit |-> IF okProfit THEN DoubleScalar(ProfitOf(j)) ELSE NullDouble]

\* Columns an aggregation does not read are held at one value.
CustomerFactChoices ==
    IntScalars(Keys) \X {IntScalar(1)} \X {IntScalar(1)} \X BOOLEAN \X BOOLEAN
MultiFactChoices ==
    {IntScalar(1)} \X IntScalars(Keys) \X IntScalars(Keys) \X BOOLEAN \X {TRUE}

\* Customer tables without null and without duplicate key: keys 1, 2, ...
\* in row order, any customer type.
RegularCustomerTables ==
    UNION {{[j \in 1..k |-> [customer_key |-> IntScalar(j),
                             customer_type |-> StringScalar(a[j])]] :
              a \in [1..k -> CustomerTypes]} : k \in 0..Cardinality(Keys)}

\* Fact rows without null.
RegularCustomerFactChoices ==
    {IntScalar(k) : k \in Keys} \X {IntScalar(1)} \X {IntScalar(1)} \X {TRUE} \X {TRUE}
RegularMultiFactChoices ==
    {IntScalar(1)} \X {IntScalar(k) : k \in Keys} \X {IntScalar(k) : k \in Keys}
        \X {TRUE} \X {TRUE}

\* sales_table is a fact table of up to n rows shaped by the choices in C.
SalesTableOver(C, n) ==
    \E k \in 0..n : \E c \in [1..k -> C] :
        sales_table =
            [j \in 1..k |-> FactRow(j, c[j][1], c[j][2], c[j][3], c[j][4], c[j][5])]

\* The dimension tables of the specification's scenario.
StandardGeographyTable ==
    <<[geography_key |-> IntScalar(1), region |-> StringScalar("East")],
      [geography_key |-> IntScalar(2), region |-> StringScalar("West")]>>
StandardProductTable ==
    <<[product_key |-> IntScalar(1), category |-> StringScalar("A")],
      [product_key |-> IntScalar(2), category |-> StringScalar("B")]>>

\* Inputs of AnalyzeCustomerSegments: an arbitrary customer table with a
\* fact table without null, or a regular customer table with an arbitrary
\* fact table.
CustomerInputs ==
    /\ analysis = "customer"
    /\ geography_table = <<>>
    /\ product_table = <<>>
    /\ \/ /\ customer_table \in SeqsUpTo(CustomerRows, MaxDimRows)
          /\ SalesTableOver(RegularCustomerFactChoices, MaxFactRows)
       \/ /\ customer_table \in RegularCustomerTables
          /\ SalesTableOver(CustomerFactChoices, MaxFactRows)

\* Inputs of MultidimensionalAnalysis: one of the three tables it reads is
\* arbitrary; of the two others the fact table is without null and the
\* dimension tables are the standard ones.
MultiInputs ==
    /\ analysis = "multi"
    /\ customer_table = <<>>
    /\ \/ /\ geography_table \in SeqsUpTo(GeographyRows, MaxDimRows)
          /\ product_table = StandardProductTable
          /\ SalesTableOver(RegularMultiFactChoices, MaxFactRows)
       \/ /\ geography_table = StandardGeographyTable
          /\ product_table \in SeqsUpTo(ProductRows, MaxDimRows)
          /\ SalesTableOver(RegularMultiFactChoices, MaxFactRows)
       \/ /\ geography_table = StandardGeographyTable
          /\ product_table = StandardProductTable
          /\ SalesTableOver(MultiFactChoices, MaxFactRows)

\* Inputs of AnalyzeSalesByTime: any fact table; it reads no key column.
TimeFactChoices ==
    {IntScalar(1)} \X {IntScalar(1)} \X {IntScalar(1)} \X BOOLEAN \X BOOLEAN

TimeInputs ==
    /\ analysis = "time"
    /\ customer_table = <<>>
    /\ geography_table = <<>>
    /\ product_table = <<>>
    /\ SalesTableOver(TimeFactChoices, MaxFactRows)

\* The two concrete scenarios of the specification's testable properties:
\* rows (East,A,10), (East,A,5), (West,B,20), and a 3-row fact table one
\* row of which references a dimension key that does not exist.
ScenarioInputs ==
    \/ /\ analysis = "multi"
       /\ customer_table = <<>>
       /\ geography_table = StandardGeographyTable
       /\ product_table = StandardProductTable
       /\ sales_table =
             <<FactRow(1, IntScalar(1), IntScalar(1), IntScalar(1), TRUE, TRUE),
               FactRow(2, IntScalar(1), IntScalar(1), IntScalar(1), TRUE, TRUE),
               FactRow(3, IntScalar(1), IntScalar(2), IntScalar(2), TRUE, TRUE)>>
    \/ /\ analysis = "multi"
       /\ customer_table = <<>>
       /\ geography_table =
             <<[geography_key |-> IntScalar(1), region |-> StringScalar("East")]>>
       /\ product_table =
             <<[product_key |-> IntScalar(1), category |-> StringScalar("A")]>>
       /\ sales_table =
             <<FactRow(1, IntScalar(1), IntScalar(1), IntScalar(1), TRUE, TRUE),
               FactRow(2, IntScalar(1), IntScalar(2), IntScalar(1), TRUE, TRUE),
               FactRow(3, IntScalar(1), IntScalar(1), IntScalar(1), TRUE, TRUE)>>
    \/ /\ analysis = "customer"
       /\ geography_table = <<>>
       /\ product_table = <<>>
       /\ customer_table =
             <<[customer_key |-> IntScalar(1), customer_type |-> StringScalar("Retail")]>>
       /\ sales_table =
             <<FactRow(1, IntScalar(1), IntScalar(1), IntScalar(1), TRUE, TRUE),
               FactRow(2, IntScalar(2), IntScalar(1), IntScalar(1), TRUE, TRUE),
               FactRow(3, IntScalar(1), IntScalar(1), IntScalar(1), TRUE, TRUE)>>

\* The state of an aggregation at its entry.
EntryAgg ==
    /\ status = "none"
    /\ pc = "start"
    /\ i = 0
    /\ cust_to_type = EmptyMap
    /\ geo_to_region = EmptyMap
    /\ prod_to_category = EmptyMap
    /\ type_sales = EmptyMap
    /\ type_profit = EmptyMap
    /\ unique_customers = EmptyMap
    /\ order_counts = EmptyMap
    /\ region_category_sales = EmptyMap
    /\ sorted_results = <<>>
    /\ printed = <<>>

\* Every column the aggregations fetch is present with its declared type.
WellFormed == [absent |-> {}, mistyped |-> {}]

InitAgg ==
    /\ (CustomerInputs \/ MultiInputs \/ TimeInputs \/ ScenarioInputs)
    /\ time_table = <<>>
    /\ schema = WellFormed
    /\ EntryAgg

\* ------------------------------------------------------------------------
\* Dimension lookup construction
\* ------------------------------------------------------------------------
\* Body of the lookup loops: the key is indexed when both scalars are valid.
IndexRow(m, key_scalar, attr_scalar) ==
    IF key_scalar.is_valid /\ attr_scalar.is_valid
    THEN Put(m, key_scalar.value, attr_scalar.value)
    ELSE m

RECURSIVE BuildLookupFrom(_, _, _, _)
BuildLookupFrom(keys, attrs, j, m) ==
    IF j >= Len(keys) THEN m
    ELSE BuildLookupFrom(keys, attrs, j + 1,
                         IndexRow(m, GetScalar(keys, j), GetScalar(attrs, j)))

\* for (i = 0; i < keys->length(); ++i) { ... m[key] = attr ... }
BuildLookup(keys, attrs) == BuildLookupFrom(keys, attrs, 0, EmptyMap)

\* ------------------------------------------------------------------------
\* AnalyzeCustomerSegments
\* ------------------------------------------------------------------------
CustBuildLookup ==
    /\ analysis = "customer"
    /\ pc = "start"
    /\ IF AssignOrRaise(CustomerColumns) = "OK"
       THEN /\ cust_to_type' =
                  BuildLookup(GetColumnAsArray("customer_table_", "customer_key").value,
                              GetColumnAsArray("customer_table_", "customer_type").value)
            /\ pc' = "scan"
            /\ status' = status
       ELSE /\ cust_to_type' = cust_to_type
            /\ pc' = "done"
            /\ status' = AssignOrRaise(CustomerColumns)
    /\ i' = 0
    /\ UNCHANGED <<runVars, cmpVars>>
    /\ UNCHANGED <<analysis, tables, geo_to_region, prod_to_category,
                   type_sales, type_profit, unique_customers, order_counts,
                   region_category_sales, sorted_results, printed>>

\* Variant of CustFold that counts the order before the customer key is
\* looked up.
CustFoldCountingFirst(acc, lookup, cust, sales, prof) ==
    IF cust.is_valid /\ sales.is_valid /\ prof.is_valid
    THEN LET type_it == Find(lookup, cust.value)
             type == type_it.second
         IN  IF type_it.found
             THEN [type_sales |->
                      Put(acc.type_sales, type,
                          Append(At(acc.type_sales, type, <<>>), sales.value)),
                   type_profit |->
                      Put(acc.type_profit, type,
                          Append(At(acc.type_profit, type, <<>>), prof.value)),
                   unique_customers |->
                      Put(acc.unique_customers, type,
                          At(acc.unique_customers, type, {}) \cup {cust.value}),
                   order_counts |->
                      Put(acc.order_counts, type,
                          At(acc.order_counts, type, 0) + 1)]
             ELSE [acc EXCEPT !.order_counts =
                      Put(acc.order_counts, type, At(acc.order_counts, type, 0) + 1)]
    ELSE acc

\* The accumulators after the fact row (cust, sales, prof) is processed.
CustFold(acc, lookup, cust, sales, prof) ==
    IF cust.is_valid /\ sales.is_valid /\ prof.is_valid
    THEN LET type_it == Find(lookup, cust.value)
             type == type_it.second
         IN  IF type_it.found
             THEN [type_sales |->
                      Put(acc.type_sales, type,
                          Append(At(acc.type_sales, type, <<>>), sales.value)),
                   type_profit |->
                      Put(acc.type_profit, type,
                          Append(At(acc.type_profit, type, <<>>), prof.value)),
                   unique_customers |->
                      Put(acc.unique_customers, type,
                          At(acc.unique_customers, type, {}) \cup {cust.value}),
                   order_counts |->
                      Put(acc.order_counts, type,
                          At(acc.order_counts, type, 0) + 1)]
             ELSE acc
    ELSE acc

CustScanRow ==
    /\ analysis = "customer"
    /\ pc = "scan"
    /\ LET customer_keys == GetColumnAsArray("sales_table_", "customer_key").value
           gross_sales == GetColumnAsArray("sales_table_", "gross_sales").value
           profit == GetColumnAsArray("sales_table_", "profit").value
       IN  /\ i < Len(customer_keys)
           /\ LET acc == CustFold([type_sales |-> type_sales,
                                   type_profit |-> type_profit,
                                   unique_customers |-> unique_customers,
                                   order_counts |-> order_counts],
                                  cust_to_type,
                                  GetScalar(customer_keys, i),
                                  GetScalar(gross_sales, i),
                                  GetScalar(profit, i))
              IN  /\ type_sales' = acc.type_sales
                  /\ type_profit' = acc.type_profit
                  /\ unique_customers' = acc.unique_customers
                  /\ order_counts' = acc.order_counts
    /\ i' = i + 1
    /\ UNCHANGED <<runVars, cmpVars>>
    /\ UNCHANGED <<analysis, tables, status, pc, cust_to_type, geo_to_region,
                   prod_to_category, region_category_sales, sorted_results,
                   printed>>

CustomerHeader ==
    <<"customer_type", "total_sales", "avg_sales_per_order", "total_profit",
      "avg_profit_per_order", "unique_customers">>

\* Variant of CustomerLine that reports the number of orders of the type
\* as its number of unique customers.
CustomerLineCountingOrders(type) ==
    LET total_sales == Accumulate(type_sales[type])
        total_profit == Accumulate(At(type_profit, type, <<>>))
    IN  [customer_type |-> type,
         total_sales |-> total_sales,
         avg_sales_per_order |-> <<total_sales, At(order_counts, type, 0)>>,
         total_profit |-> total_profit,
         avg_profit_per_order |-> <<total_profit, At(order_counts, type, 0)>>,
         unique_customers |-> At(order_counts, type, 0)]

\* One printed line of the customer table; an average is kept as the pair
\* of its dividend and divisor.
CustomerLine(type) ==
    LET total_sales == Accumulate(type_sales[type])
        total_profit == Accumulate(At(type_profit, type, <<>>))
    IN  [customer_type |-> type,
         total_sales |-> total_sales,
         avg_sales_per_order |-> <<total_sales, At(order_counts, type, 0)>>,
         total_profit |-> total_profit,
         avg_profit_per_order |-> <<total_profit, At(order_counts, type, 0)>>,
         unique_customers |-> Cardinality(At(unique_customers, type, {}))]

CustPrint ==
    /\ analysis = "customer"
    /\ pc = "scan"
    /\ i >= Len(sales_table)
    /\ LET order == StringKeysInOrder(DOMAIN type_sales)
       IN  printed' = [header |-> CustomerHeader,
                       rows |-> [n \in 1..Len(order) |-> CustomerLine(order[n])]]
    /\ pc' = "done"
    /\ status' = "OK"
    /\ UNCHANGED <<runVars, cmpVars>>
    /\ UNCHANGED <<analysis, tables, i, cust_to_type, geo_to_region,
                   prod_to_category, type_sales, type_profit,
                   unique_customers, order_counts, region_category_sales,
                   sorted_results>>

\* ------------------------------------------------------------------------
\* MultidimensionalAnalysis
\* ------------------------------------------------------------------------
MultiBuildLookups ==
    /\ analysis = "multi"
    /\ pc = "start"
    /\ IF AssignOrRaise(MultiColumns) = "OK"
       THEN /\ geo_to_region' =
                  BuildLookup(GetColumnAsArray("geography_table_", "geography_key").value,
                              GetColumnAsArray("geography_table_", "region").value)
            /\ prod_to_category' =
                  BuildLookup(GetColumnAsArray("product_table_", "product_key").value,
                              GetColumnAsArray("product_table_", "category").value)
            /\ pc' = "scan"
            /\ status' = status
       ELSE /\ geo_to_region' = geo_to_region
            /\ prod_to_category' = prod_to_category
            /\ pc' = "done"
            /\ status' = AssignOrRaise(MultiColumns)
    /\ i' = 0
    /\ UNCHANGED <<runVars, cmpVars>>
    /\ UNCHANGED <<analysis, tables, cust_to_type, type_sales, type_profit,
                   unique_customers, order_counts, region_category_sales,
                   sorted_results, printed>>

\* region_category_sales after the fact row (geo, prod, sales) is processed.
MultiFold(acc, geo_lookup, prod_lookup, geo, prod, sales) ==
    IF geo.is_valid /\ prod.is_valid /\ sales.is_valid
    THEN LET region_it == Find(geo_lookup, geo.value)
             category_it == Find(prod_lookup, prod.value)
             key == <<region_it.second, category_it.second>>
         IN  IF region_it.found /\ category_it.found
             THEN Put(acc, key, Append(At(acc, key, <<>>), sales.value))
             ELSE acc
    ELSE acc

MultiScanRow ==
    /\ analysis = "multi"
    /\ pc = "scan"
    /\ LET geo_keys == GetColumnAsArray("sales_table_", "geography_key").value
           product_keys == GetColumnAsArray("sales_table_", "product_key").value
           gross_sales == GetColumnAsArray("sales_table_", "gross_sales").value
       IN  /\ i < Len(geo_keys)
           /\ region_category_sales' =
                 MultiFold(region_category_sales, geo_to_region,
                           prod_to_category, GetScalar(geo_keys, i),
                           GetScalar(product_keys, i), GetScalar(gross_sales, i))
    /\ i' = i + 1
    /\ UNCHANGED <<runVars, cmpVars>>
    /\ UNCHANGED <<analysis, tables, status, pc, cust_to_type, geo_to_region,
                   prod_to_category, type_sales, type_profit,
                   unique_customers, order_counts, sorted_results, printed>>

MultiHeader == <<"region", "category", "gross_sales">>

\* Variant of SortLess that compares the regions only.
SortLessRegionOnly(a, b) == StringLess(a[1][1], b[1][1])

\* The comparator of the std::sort call.
SortLess(a, b) ==
    IF a[1][1] # b[1][1] THEN StringLess(a[1][1], b[1][1])
    ELSE StringLess(a[1][2], b[1][2])

\* std::sort with SortLess: insertion of each element in turn.
RECURSIVE InsertSorted(_, _)
InsertSorted(s, e) ==
    IF s = <<>> THEN <<e>>
    ELSE IF SortLess(e, s[1]) THEN <<e>> \o s
    ELSE <<s[1]>> \o InsertSorted(Tail(s), e)

RECURSIVE Sort(_)
Sort(s) == IF s = <<>> THEN <<>> ELSE InsertSorted(Sort(Tail(s)), s[1])

MultiPrint ==
    /\ analysis = "multi"
    /\ pc = "scan"
    /\ i >= Len(sales_table)
    /\ LET order == PairKeysInOrder(DOMAIN region_category_sales)
           results == [n \in 1..Len(order) |->
                          <<order[n], Accumulate(region_category_sales[order[n]])>>]
       IN  /\ sorted_results' = Sort(results)
           /\ printed' = [header |-> MultiHeader,
                          rows |-> [n \in 1..Len(order) |->
                                      [region |-> Sort(results)[n][1][1],
                                       category |-> Sort(results)[n][1][2],
                                       gross_sales |-> Sort(results)[n][2]]]]
    /\ pc' = "done"
    /\ status' = "OK"
    /\ UNCHANGED <<runVars, cmpVars>>
    /\ UNCHANGED <<analysis, tables, i, cust_to_type, geo_to_region,
                   prod_to_category, type_sales, type_profit,
                   unique_customers, order_counts, region_category_sales>>

\* ------------------------------------------------------------------------
\* AnalyzeSalesByTime: the overall sales summary
\* ------------------------------------------------------------------------
\* arrow::compute::Sum / Count with the default options: nulls are skipped;
\* the scalar of a sum over no value carries the value 0.
ComputeSum(array) ==
    Accumulate([n \in 1..Len(array) |->
                   IF array[n].is_valid THEN array[n].value ELSE 0])
ComputeCount(array) ==
    Cardinality({n \in 1..Len(array) : array[n].is_valid})

\* a / b on double: a division by zero raises nothing and yields NaN or an
\* infinity; any other quotient is kept as the pair of its operands.
DoubleDivide(a, b) ==
    IF b # 0 THEN <<a, b>>
    ELSE IF a = 0 THEN "nan" ELSE IF a > 0 THEN "inf" ELSE "-inf"

AnalyzeSalesByTime ==
    /\ analysis = "time"
    /\ pc = "start"
    /\ LET gross_sales == GetColumnAsArray("sales_table_", "gross_sales").value
           profit == GetColumnAsArray("sales_table_", "profit").value
           sum_sales == ComputeSum(gross_sales)
           sum_profit == ComputeSum(profit)
           record_count == ComputeCount(gross_sales)
       IN  printed' = [header |-> <<>>,
                       rows |-> <<>>,
                       summary |->
                          [total_sales_records |-> record_count,
                           total_gross_sales |-> sum_sales,
                           total_profit |-> sum_profit,
                           average_sale |-> DoubleDivide(sum_sales, record_count),
                           profit_margin |-> DoubleDivide(sum_profit, sum_sales)]]
    /\ pc' = "done"
    /\ status' = "OK"
    /\ UNCHANGED <<runVars, cmpVars>>
    /\ UNCHANGED <<analysis, tables, i, cust_to_type, geo_to_region,
                   prod_to_category, type_sales, type_profit, unique_customers,
                   order_counts, region_category_sales, sorted_results>>

\* ------------------------------------------------------------------------
\* RunAllAnalyses
\* ------------------------------------------------------------------------
TableOrder ==
    <<"fact_sales", "dim_time", "dim_geography", "dim_product", "dim_customer">>

ArrowAnalyses ==
    <<"AnalyzeSalesByTime", "AnalyzeSalesByGeography", "AnalyzeSalesByProduct",
      "AnalyzeCustomerSegments", "MultidimensionalAnalysis">>

DuckDBAnalyses ==
    <<"AnalyzeSalesByTime", "AnalyzeSalesByGeography", "AnalyzeSalesByProduct",
      "AnalyzeCustomerSegments", "MultidimensionalAnalysis",
      "DemonstratePerformanceAdvantages">>

\* The analyses among the calls made so far.
AnalysesStarted == SelectSeq(calls, LAMBDA c : c # "PrintDataInfo")

\* Variant of ReturnNotOk that drops the status and goes on.
ReturnNotOkIgnored(ok, next) == next

\* ARROW_RETURN_NOT_OK(status): leave the function unless the status is OK.
ReturnNotOk(ok, next) == IF ok THEN next ELSE "done"

\* Variant of ReturnFalseOnError that goes on after a failed registration.
ReturnFalseOnErrorIgnored(ok, next) == next

\* if (HasError(result)) return false; / if (!RegisterParquetTables()) return false;
ReturnFalseOnError(ok, next) == IF ok THEN next ELSE "done"

\* LoadAllTables: one LoadParquetFile call, in the order of the source.
ArrowLoadParquetFile ==
    /\ backend = "arrow"
    /\ run_pc = "load"
    /\ \E ok \in BOOLEAN :
          LET n == Len(attempted) + 1
          IN  /\ attempted' = Append(attempted, TableOrder[n])
              /\ loaded' = IF ok THEN loaded \cup {TableOrder[n]} ELSE loaded
              /\ run_pc' = ReturnNotOk(ok, IF n = Len(TableOrder) THEN "info" ELSE "load")
              /\ result' = IF ok THEN result ELSE "error"
    /\ UNCHANGED <<backend, calls, failed, returned>>
    /\ UNCHANGED <<aggVars, cmpVars>>

ArrowPrintDataInfo ==
    /\ backend = "arrow"
    /\ run_pc = "info"
    /\ calls' = Append(calls, "PrintDataInfo")
    /\ run_pc' = "analyses"
    /\ UNCHANGED <<backend, attempted, loaded, failed, returned, result>>
    /\ UNCHANGED <<aggVars, cmpVars>>

\* One analysis of the Arrow analyzer; it returns OK or an error status (an
\* exception inside the analysis is caught there and returned as a status).
ArrowAnalysis ==
    /\ backend = "arrow"
    /\ run_pc = "analyses"
    /\ Len(AnalysesStarted) < Len(ArrowAnalyses)
    /\ \E ok \in BOOLEAN :
          LET n == Len(AnalysesStarted) + 1
          IN  /\ calls' = Append(calls, ArrowAnalyses[n])
              /\ failed' = IF ok THEN failed ELSE failed \cup {ArrowAnalyses[n]}
              /\ returned' = Append(returned, IF ok THEN "ok" ELSE "error")
              /\ run_pc' = ReturnNotOk(ok, "analyses")
              /\ result' = IF ok THEN result ELSE "error"
    /\ UNCHANGED <<backend, attempted, loaded>>
    /\ UNCHANGED <<aggVars, cmpVars>>

ArrowReturn ==
    /\ backend = "arrow"
    /\ run_pc = "analyses"
    /\ Len(AnalysesStarted) = Len(ArrowAnalyses)
    /\ result' = "ok"
    /\ run_pc' = "done"
    /\ UNCHANGED <<backend, attempted, loaded, calls, failed, returned>>
    /\ UNCHANGED <<aggVars, cmpVars>>

\* RegisterParquetTables: one CREATE VIEW query, in the order of the source.
DuckDBRegisterView ==
    /\ backend = "duckdb"
    /\ run_pc = "load"
    /\ \E ok \in BOOLEAN :
          LET n == Len(attempted) + 1
          IN  /\ attempted' = Append(attempted, TableOrder[n])
              /\ loaded' = IF ok THEN loaded \cup {TableOrder[n]} ELSE loaded
              /\ run_pc' = ReturnFalseOnError(ok, IF n = Len(TableOrder) THEN "info" ELSE "load")
              /\ result' = IF ok THEN result ELSE "error"
    /\ UNCHANGED <<backend, calls, failed, returned>>
    /\ UNCHANGED <<aggVars, cmpVars>>

DuckDBPrintDataInfo ==
    /\ backend = "duckdb"
    /\ run_pc = "info"
    /\ calls' = Append(calls, "PrintDataInfo")
    /\ run_pc' = "analyses"
    /\ UNCHANGED <<backend, attempted, loaded, failed, returned, result>>
    /\ UNCHANGED <<aggVars, cmpVars>>

\* One analysis of the DuckDB analyzer.  A query of the analysis may return
\* an error result ("error"): PrintQueryResult reports it on std::cerr and
\* the analysis goes on to its 'return true'; the value is dropped by
\* RunAllAnalyses.  An exception ("throw") leaves the analysis and
\* RunAllAnalyses through the catch clause of the latter.
DuckDBAnalysis ==
    /\ backend = "duckdb"
    /\ run_pc = "analyses"
    /\ Len(AnalysesStarted) < Len(DuckDBAnalyses)
    /\ \E outcome \in {"ok", "error", "throw"} :
          LET n == Len(AnalysesStarted) + 1
          IN  /\ calls' = Append(calls, DuckDBAnalyses[n])
              /\ failed' = IF outcome = "ok" THEN failed
                           ELSE failed \cup {DuckDBAnalyses[n]}
              /\ returned' = Append(returned,
                                    IF outcome = "throw" THEN "throw" ELSE "ok")
              /\ run_pc' = IF outcome = "throw" THEN "done" ELSE "analyses"
              /\ result' = IF outcome = "throw" THEN "error" ELSE result
    /\ UNCHANGED <<backend, attempted, loaded>>
    /\ UNCHANGED <<aggVars, cmpVars>>

DuckDBReturn ==
    /\ backend = "duckdb"
    /\ run_pc = "analyses"
    /\ Len(AnalysesStarted) = Len(DuckDBAnalyses)
    /\ result' = "ok"
    /\ run_pc' = "done"
    /\ UNCHANGED <<backend, attempted, loaded, calls, failed, returned>>
    /\ UNCHANGED <<aggVars, cmpVars>>

\* ------------------------------------------------------------------------
\* Specifications
\* ------------------------------------------------------------------------
\* No aggregation in progress.
AggIdle ==
    /\ analysis = "none"
    /\ sales_table = <<>>
    /\ customer_table = <<>>
    /\ geography_table = <<>>
    /\ product_table = <<>>
    /\ time_table = <<>>
    /\ schema = WellFormed
    /\ status = "none"
    /\ pc = "idle"
    /\ i = 0
    /\ cust_to_type = EmptyMap
    /\ geo_to_region = EmptyMap
    /\ prod_to_category = EmptyMap
    /\ type_sales = EmptyMap
    /\ type_profit = EmptyMap
    /\ unique_customers = EmptyMap
    /\ order_counts = EmptyMap
    /\ region_category_sales = EmptyMap
    /\ sorted_results = <<>>
    /\ printed = <<>>

\* No run of RunAllAnalyses in progress.
RunIdle ==
    /\ backend = "none"
    /\ run_pc = "idle"
    /\ attempted = <<>>
    /\ loaded = {}
    /\ calls = <<>>
    /\ failed = {}
    /\ returned = <<>>
    /\ result = "none"

\* No second analyzer, no row limit and no earlier call.
CmpIdle ==
    /\ duckdb_printed = <<>>
    /\ row_limit = 0
    /\ chunks = <<>>
    /\ runs = 1
    /\ previous = <<>>
    /\ suspended = <<>>

\* Entry of RunAllAnalyses of either analyzer.
InitRun ==
    /\ AggIdle
    /\ CmpIdle
    /\ backend \in {"arrow", "duckdb"}
    /\ run_pc = "load"
    /\ attempted = <<>>
    /\ loaded = {}
    /\ calls = <<>>
    /\ failed = {}
    /\ returned = <<>>
    /\ result = "none"

NextRun ==
    \/ ArrowLoadParquetFile
    \/ ArrowPrintDataInfo
    \/ ArrowAnalysis
    \/ ArrowReturn
    \/ DuckDBRegisterView
    \/ DuckDBPrintDataInfo
    \/ DuckDBAnalysis
    \/ DuckDBReturn

SpecRun == InitRun /\ [][NextRun]_vars

Init == InitAgg /\ RunIdle /\ CmpIdle

Next ==
    \/ CustBuildLookup
    \/ CustScanRow
    \/ CustPrint
    \/ MultiBuildLookups
    \/ MultiScanRow
    \/ MultiPrint
    \/ AnalyzeSalesByTime

Spec == Init /\ [][Next]_vars

\* ------------------------------------------------------------------------
\* An aggregation over tables one column of which is absent or mistyped
\* ------------------------------------------------------------------------
StandardCustomerTable ==
    <<[customer_key |-> IntScalar(1), customer_type |-> StringScalar("Corporate")],
      [customer_key |-> IntScalar(2), customer_type |-> StringScalar("Retail")]>>

StandardFactTable ==
    <<FactRow(1, IntScalar(1), IntScalar(1), IntScalar(1), TRUE, TRUE),
      FactRow(2, IntScalar(2), IntScalar(2), IntScalar(2), TRUE, TRUE)>>

\* The schemas with the one defect that column c is absent or mistyped.
OneDefect(c) ==
    {[absent |-> {c}, mistyped |-> {}], [absent |-> {}, mistyped |-> {c}]}

\* One column an aggregation fetches is absent or mistyped; the table of
\* that column is arbitrary (what is read from a mistyped cell is so), the
\* other tables are the standard ones.
SchemaInputs ==
    \/ /\ analysis = "customer"
       /\ geography_table = <<>>
       /\ product_table = <<>>
       /\ \E n \in 1..Len(CustomerColumns) :
             /\ schema \in OneDefect(CustomerColumns[n])
             /\ IF CustomerColumns[n][1] = "sales_table_"
                THEN /\ customer_table = StandardCustomerTable
                     /\ SalesTableOver(CustomerFactChoices, MaxFactRows)
                ELSE /\ customer_table \in SeqsUpTo(CustomerRows, MaxDimRows)
                     /\ sales_table = StandardFactTable
    \/ /\ analysis = "multi"
       /\ customer_table = <<>>
       /\ \E n \in 1..Len(MultiColumns) :
             /\ schema \in OneDefect(MultiColumns[n])
             /\ CASE MultiColumns[n][1] = "sales_table_" ->
                       /\ geography_table = StandardGeographyTable
                       /\ product_table = StandardProductTable
                       /\ SalesTableOver(MultiFactChoices, MaxFactRows)
                  [] MultiColumns[n][1] = "geography_table_" ->
                       /\ geography_table \in SeqsUpTo(GeographyRows, MaxDimRows)
                       /\ product_table = StandardProductTable
                       /\ sales_table = StandardFactTable
                  [] MultiColumns[n][1] = "product_table_" ->
                       /\ geography_table = StandardGeographyTable
                       /\ product_table \in SeqsUpTo(ProductRows, MaxDimRows)
                       /\ sales_table = StandardFactTable

InitSchema ==
    /\ SchemaInputs
    /\ time_table = <<>>
    /\ EntryAgg
    /\ RunIdle
    /\ CmpIdle

\* The columns fetched by the running aggregation.
ColumnsUsed ==
    LET columns == IF analysis = "customer" THEN CustomerColumns ELSE MultiColumns
    IN  {columns[n] : n \in 1..Len(columns)}

\* The row j (from 0) of the table has a valid scalar in each given column:
\* the condition under which the loops read the values of the scalars.
AllValid(table, column_names, j) ==
    \A c \in column_names : TableOf(table)[j + 1][c].is_valid

\* The next step of the aggregation reads, through a static_pointer_cast
\* to the scalar class it expects, the value of a scalar of another class.
ReadsMistyped ==
    /\ status = "none"
    /\ AssignOrRaise(IF analysis = "customer" THEN CustomerColumns ELSE MultiColumns) = "OK"
    /\ \E c \in schema.mistyped \cap ColumnsUsed :
          LET names == {d[2] : d \in {e \in ColumnsUsed : e[1] = c[1]}}
          IN  IF c[1] = "sales_table_"
              THEN pc = "scan" /\ i < Len(sales_table) /\ AllValid(c[1], names, i)
              ELSE pc = "start" /\ \E j \in 0..(Len(TableOf(c[1])) - 1) :
                                      AllValid(c[1], names, j)

\* Reading a value through the wrong scalar class is undefined: besides
\* yielding some value (the cell's content), it can end the process.
MistypedReadCrash ==
    /\ ReadsMistyped
    /\ pc' = "done"
    /\ status' = "crashed"
    /\ UNCHANGED <<runVars, cmpVars>>
    /\ UNCHANGED <<analysis, tables, i, cust_to_type, geo_to_region,
                   prod_to_category, type_sales, type_profit, unique_customers,
                   order_counts, region_category_sales, sorted_results, printed>>

NextSchema ==
    \/ CustBuildLookup
    \/ CustScanRow
    \/ CustPrint
    \/ MultiBuildLookups
    \/ MultiScanRow
    \/ MultiPrint
    \/ MistypedReadCrash

SpecSchema == InitSchema /\ [][NextSchema]_vars

\* ------------------------------------------------------------------------
\* The SQL of the DuckDB analyzer
\* ------------------------------------------------------------------------
\* FROM fact_sales s JOIN dim ON s.fkey = dim.dkey: a joined row for every
\* fact row and every dimension row with equal non-null keys.
Join(dim, fkey, dkey) ==
    {<<j, d>> \in (1..Len(sales_table)) \X (1..Len(dim)) :
        /\ sales_table[j][fkey].is_valid
        /\ dim[d][dkey].is_valid
        /\ sales_table[j][fkey].value = dim[d][dkey].value}

\* The joined rows of the three grouped queries, each with its GROUP BY key.
JoinedCustomer ==
    {[j |-> t[1], d |-> <<t[2]>>, key |-> customer_table[t[2]].customer_type] :
        t \in Join(customer_table, "customer_key", "customer_key")}
JoinedMulti ==
    {[j |-> g[1], d |-> <<g[2], p[2]>>,
      key |-> <<geography_table[g[2]].region, product_table[p[2]].category>>] :
        <<g, p>> \in {<<x, y>> \in Join(geography_table, "geography_key", "geography_key")
                                   \X Join(product_table, "product_key", "product_key") :
                          x[1] = y[1]}}
JoinedCountries ==
    {[j |-> t[1], d |-> <<t[2]>>, key |-> geography_table[t[2]].country] :
        t \in Join(geography_table, "geography_key", "geography_key")}

\* SUM(column) over joined rows: NULL when no value is non-null.
RECURSIVE SqlSumValue(_, _)
SqlSumValue(T, column) ==
    IF T = {} THEN 0
    ELSE LET t == CHOOSE x \in T : TRUE
             v == sales_table[t.j][column]
         IN  (IF v.is_valid THEN v.value ELSE 0) + SqlSumValue(T \ {t}, column)
SqlSum(T, column) ==
    IF \E t \in T : sales_table[t.j][column].is_valid
    THEN DoubleScalar(SqlSumValue(T, column))
    ELSE NullDouble

\* AVG(column): the pair of the sum and the count of the non-null values,
\* NULL when there is none.
SqlAvg(T, column) ==
    IF \E t \in T : sales_table[t.j][column].is_valid
    THEN DoubleScalar(<<SqlSumValue(T, column),
                        Cardinality({t \in T : sales_table[t.j][column].is_valid})>>)
    ELSE NullDouble

\* COUNT(DISTINCT column)
SqlCountDistinct(T, column) ==
    Cardinality({sales_table[t.j][column].value :
                    t \in {x \in T : sales_table[x.j][column].is_valid}})

\* The result rows of GROUP BY before ORDER BY, one per group key.
CustomerQueryRows ==
    {[customer_type |-> k,
      total_sales |-> SqlSum({t \in JoinedCustomer : t.key = k}, "gross_sales"),
      avg_sales_per_order |-> SqlAvg({t \in JoinedCustomer : t.key = k}, "gross_sales"),
      total_profit |-> SqlSum({t \in JoinedCustomer : t.key = k}, "profit"),
      avg_profit_per_order |-> SqlAvg({t \in JoinedCustomer : t.key = k}, "profit"),
      unique_customers |->
          SqlCountDistinct({t \in JoinedCustomer : t.key = k}, "customer_key")] :
        k \in {t.key : t \in JoinedCustomer}}
MultiQueryRows ==
    {[region |-> k[1],
      category |-> k[2],
      gross_sales |-> SqlSum({t \in JoinedMulti : t.key = k}, "gross_sales")] :
        k \in {t.key : t \in JoinedMulti}}
CountryQueryRows ==
    {[country |-> k,
      gross_sales |-> SqlSum({t \in JoinedCountries : t.key = k}, "gross_sales"),
      profit |-> SqlSum({t \in JoinedCountries : t.key = k}, "profit")] :
        k \in {t.key : t \in JoinedCountries}}

\* ORDER BY x DESC / ASC, NULLs last: a sorts strictly before b.
DescBefore(a, b) == a.is_valid /\ (~b.is_valid \/ a.value > b.value)
AscBefore(a, b) == a.is_valid /\ (~b.is_valid \/ StringLess(a.value, b.value))

\* The same for the integer columns of dim_time.
IntegerColumns == {"year", "quarter", "month"}
AscBeforeInteger(a, b) == a.is_valid /\ (~b.is_valid \/ a.value < b.value)

\* ORDER BY column ASC: the value a of the column sorts strictly before b.
AscBeforeIn(column, a, b) ==
    IF column \in IntegerColumns THEN AscBeforeInteger(a, b) ELSE AscBefore(a, b)

\* The ORDER BY clause, a sequence of <<column, direction>>, lets the row x
\* stand before the row y.
RECURSIVE MayPrecede(_, _, _)
MayPrecede(order_by, x, y) ==
    IF order_by = <<>> THEN TRUE
    ELSE LET a == x[order_by[1][1]]
             b == y[order_by[1][1]]
             desc == order_by[1][2] = "DESC"
         IN  \/ IF desc THEN DescBefore(a, b) ELSE AscBeforeIn(order_by[1][1], a, b)
             \/ /\ ~(IF desc THEN DescBefore(b, a) ELSE AscBeforeIn(order_by[1][1], b, a))
                /\ MayPrecede(Tail(order_by), x, y)

\* The sequences ORDER BY may return for a set of rows: rows the clause
\* does not tell apart come in any order.
RECURSIVE OrderBy(_, _)
OrderBy(rows, order_by) ==
    IF rows = {} THEN {<<>>}
    ELSE UNION {{<<x>> \o rest : rest \in OrderBy(rows \ {x}, order_by)} :
                  x \in {r \in rows : \A y \in rows : MayPrecede(order_by, r, y)}}

\* LIMIT k
Limit(rows, k) == SubSeq(rows, 1, IF k < Len(rows) THEN k ELSE Len(rows))

\* ------------------------------------------------------------------------
\* Row limits: PrintTable and the top-N queries
\* ------------------------------------------------------------------------
\* PrintTable(table, title, max_rows): nothing but a notice for a table
\* without row; else the field names and the first min(num_rows, max_rows)
\* rows, every cell being the result of GetScalar on chunk(0) of its column:
\* it fails for a row beyond that chunk and "ERROR" is printed for the cell.
PrintTable(table, chunk0_length, max_rows) ==
    IF Len(table) = 0 THEN [header |-> {}, rows |-> <<>>]
    ELSE LET rows_to_print == IF Len(table) < max_rows THEN Len(table) ELSE max_rows
         IN  [header |-> DOMAIN table[1],
              rows |-> [row \in 1..rows_to_print |->
                          [c \in DOMAIN table[row] |->
                              IF row <= chunk0_length
                                  THEN [ok |-> TRUE, scalar |-> table[row][c]]
                                  ELSE [ok |-> FALSE, text |-> "ERROR"]]]]

ArrowPrintTable ==
    /\ analysis = "print_table"
    /\ pc = "start"
    /\ printed' = PrintTable(sales_table, IF chunks = <<>> THEN 0 ELSE chunks[1],
                             row_limit)
    /\ pc' = "done"
    /\ UNCHANGED <<runVars, cmpVars>>
    /\ UNCHANGED <<analysis, tables, status, i, cust_to_type, geo_to_region,
                   prod_to_category, type_sales, type_profit, unique_customers,
                   order_counts, region_category_sales, sorted_results>>

\* 'Top 10 Countries by Sales' of AnalyzeSalesByGeography:
\* ... GROUP BY g.country ORDER BY SUM(s.gross_sales) DESC LIMIT row_limit.
DuckDBTopCountries ==
    /\ analysis = "top_countries"
    /\ duckdb_printed = <<>>
    /\ \E rows \in OrderBy(CountryQueryRows, <<<<"gross_sales", "DESC">>>>) :
          duckdb_printed' = [header |-> <<"country", "gross_sales", "profit">>,
                             rows |-> Limit(rows, row_limit)]
    /\ UNCHANGED <<aggVars, runVars>>
    /\ UNCHANGED <<row_limit, chunks, runs, previous, suspended>>

\* The ways to cut n rows into chunks that hold rows.
RECURSIVE Compositions(_)
Compositions(n) ==
    IF n = 0 THEN {<<>>}
    ELSE UNION {{<<k>> \o c : c \in Compositions(n - k)} : k \in 1..n}

CountryRows ==
    [geography_key : {IntScalar(k) : k \in Keys},
     country : {StringScalar(c) : c \in Countries}]

\* A table in chunks for PrintTable, or a geography and a fact table
\* without null for the top-N query; any row limit.
LimitInputs ==
    /\ customer_table = <<>>
    /\ product_table = <<>>
    /\ row_limit \in 0..MaxRowLimit
    /\ \/ /\ analysis = "print_table"
          /\ geography_table = <<>>
          /\ SalesTableOver(RegularCustomerFactChoices, MaxFactRows)
          /\ chunks \in Compositions(Len(sales_table))
       \/ /\ analysis = "top_countries"
          /\ geography_table \in SeqsUpTo(CountryRows, MaxDimRows)
          /\ SalesTableOver(RegularMultiFactChoices, MaxFactRows)
          /\ chunks = <<>>

InitLimit ==
    /\ LimitInputs
    /\ time_table = <<>>
    /\ schema = WellFormed
    /\ EntryAgg
    /\ RunIdle
    /\ duckdb_printed = <<>>
    /\ runs = 1
    /\ previous = <<>>
    /\ suspended = <<>>

NextLimit ==
    \/ ArrowPrintTable
    \/ DuckDBTopCountries

SpecLimit == InitLimit /\ [][NextLimit]_vars

\* ------------------------------------------------------------------------
\* The same analysis by both analyzers, and an analysis called again
\* ------------------------------------------------------------------------
\* A fact row without null that carries the given gross_sales.
FactRowOf(ck, gk, pk, sales, prof) ==
    [customer_key |-> IntScalar(ck), geography_key |-> IntScalar(gk),
     product_key |-> IntScalar(pk), gross_sales |-> DoubleScalar(sales),
     profit |-> DoubleScalar(prof)]

\* Two groups with equal total gross_sales.
TieInputs ==
    /\ sales_table \in {<<FactRowOf(c[1], 1, c[1], 10, 1), FactRowOf(c[2], 1, c[2], 10, 2)>> :
                           c \in {<<1, 2>>, <<2, 1>>}}
    /\ \/ /\ analysis = "customer"
          /\ customer_table = StandardCustomerTable
          /\ geography_table = <<>>
          /\ product_table = <<>>
       \/ /\ analysis = "multi"
          /\ customer_table = <<>>
          /\ geography_table = StandardGeographyTable
          /\ product_table = StandardProductTable

\* One table is arbitrary, the others are regular (customer) or standard.
CompareInputs ==
    \/ /\ analysis = "customer"
       /\ geography_table = <<>>
       /\ product_table = <<>>
       /\ \/ /\ customer_table \in RegularCustomerTables
             /\ SalesTableOver(CustomerFactChoices, MaxFactRows)
          \/ /\ customer_table \in SeqsUpTo(CustomerRows, MaxDimRows)
             /\ sales_table = StandardFactTable
    \/ /\ analysis = "multi"
       /\ customer_table = <<>>
       /\ \/ /\ geography_table = StandardGeographyTable
             /\ product_table = StandardProductTable
             /\ SalesTableOver(MultiFactChoices, MaxFactRows)
          \/ /\ geography_table \in SeqsUpTo(GeographyRows, MaxDimRows)
             /\ product_table = StandardProductTable
             /\ sales_table = StandardFactTable
          \/ /\ geography_table = StandardGeographyTable
             /\ product_table \in SeqsUpTo(ProductRows, MaxDimRows)
             /\ sales_table = StandardFactTable

InitCompare ==
    /\ (CompareInputs \/ ScenarioInputs \/ TieInputs)
    /\ time_table = <<>>
    /\ schema = WellFormed
    /\ EntryAgg
    /\ RunIdle
    /\ CmpIdle

\* 'Sales by Customer Type' of the DuckDB analyzer, on the tables the Arrow
\* aggregation has read.
DuckDBAnalyzeCustomerSegments ==
    /\ analysis = "customer"
    /\ pc = "done"
    /\ duckdb_printed = <<>>
    /\ \E rows \in OrderBy(CustomerQueryRows, <<<<"total_sales", "DESC">>>>) :
          duckdb_printed' =
              [header |-> <<"customer_type", "total_sales", "avg_sales_per_order",
                            "total_profit", "avg_profit_per_order", "unique_customers">>,
               rows |-> rows]
    /\ UNCHANGED <<aggVars, runVars>>
    /\ UNCHANGED <<row_limit, chunks, runs, previous, suspended>>

\* 'Sales by Region and Product Category' of the DuckDB analyzer.
DuckDBMultidimensionalAnalysis ==
    /\ analysis = "multi"
    /\ pc = "done"
    /\ duckdb_printed = <<>>
    /\ \E rows \in OrderBy(MultiQueryRows,
                           <<<<"region", "ASC">>, <<"gross_sales", "DESC">>>>) :
          duckdb_printed' = [header |-> <<"region", "category", "gross_sales">>,
                             rows |-> rows]
    /\ UNCHANGED <<aggVars, runVars>>
    /\ UNCHANGED <<row_limit, chunks, runs, previous, suspended>>

NextBackends ==
    \/ CustBuildLookup
    \/ CustScanRow
    \/ CustPrint
    \/ MultiBuildLookups
    \/ MultiScanRow
    \/ MultiPrint
    \/ DuckDBAnalyzeCustomerSegments
    \/ DuckDBMultidimensionalAnalysis

SpecBackends == InitCompare /\ [][NextBackends]_vars

\* ------------------------------------------------------------------------
\* The same aggregation called a second time
\* ------------------------------------------------------------------------
\* What a call of an aggregation has produced: its status and its output.
Outcome == [status |-> status, printed |-> printed]

\* Variant of Rerun in which the lookups and accumulators outlive the call.
RerunKeepingLocals ==
    /\ analysis \in {"customer", "multi"}
    /\ pc = "done"
    /\ runs = 1
    /\ previous' = Outcome
    /\ runs' = 2
    /\ status' = "none"
    /\ pc' = "start"
    /\ i' = 0
    /\ printed' = <<>>
    /\ UNCHANGED <<analysis, tables, cust_to_type, geo_to_region,
                   prod_to_category, type_sales, type_profit,
                   unique_customers, order_counts, region_category_sales,
                   sorted_results>>
    /\ UNCHANGED <<duckdb_printed, row_limit, chunks, suspended>>
    /\ UNCHANGED runVars

\* The analyzer's aggregation is called again on the tables it holds. The
\* lookups, the accumulators and the sorted vector are locals of the method:
\* the second call constructs them empty.
Rerun ==
    /\ analysis \in {"customer", "multi"}
    /\ pc = "done"
    /\ runs = 1
    /\ previous' = Outcome
    /\ runs' = 2
    /\ status' = "none"
    /\ pc' = "start"
    /\ i' = 0
    /\ cust_to_type' = EmptyMap
    /\ geo_to_region' = EmptyMap
    /\ prod_to_category' = EmptyMap
    /\ type_sales' = EmptyMap
    /\ type_profit' = EmptyMap
    /\ unique_customers' = EmptyMap
    /\ order_counts' = EmptyMap
    /\ region_category_sales' = EmptyMap
    /\ sorted_results' = <<>>
    /\ printed' = <<>>
    /\ UNCHANGED <<analysis, tables>>
    /\ UNCHANGED <<duckdb_printed, row_limit, chunks, suspended>>
    /\ UNCHANGED runVars

NextTwice ==
    \/ CustBuildLookup
    \/ CustScanRow
    \/ CustPrint
    \/ MultiBuildLookups
    \/ MultiScanRow
    \/ MultiPrint
    \/ Rerun

SpecTwice == InitCompare /\ [][NextTwice]_vars

\* ------------------------------------------------------------------------
\* AnalyzeSalesByGeography and AnalyzeSalesByProduct of the Arrow analyzer
\* ------------------------------------------------------------------------
HighValueThreshold == 100

\* arrow::compute "greater" against the threshold followed by "filter" with
\* the default options: the values at the positions where the predicate is
\* true; the positions where it is false or null are dropped.
RECURSIVE FilterFrom(_, _, _)
FilterFrom(array, filter, n) ==
    IF n > Len(array) THEN <<>>
    ELSE IF filter[n].is_valid /\ filter[n].value > HighValueThreshold
         THEN <<array[n]>> \o FilterFrom(array, filter, n + 1)
         ELSE FilterFrom(array, filter, n + 1)
Filter(array, filter) == FilterFrom(array, filter, 1)

\* a / b * 100 on double.
Percentage(a, b) == IF b # 0 THEN <<a * 100, b>> ELSE DoubleDivide(a, b)

ArrowAnalyzeSalesByGeography ==
    /\ analysis = "geography"
    /\ pc = "start"
    /\ LET gross_sales == GetColumnAsArray("sales_table_", "gross_sales").value
           profit == GetColumnAsArray("sales_table_", "profit").value
           filtered_sales == Filter(gross_sales, gross_sales)
           filtered_profit == Filter(profit, gross_sales)
           total_sales == ComputeSum(filtered_sales)
           total_profit == ComputeSum(filtered_profit)
           high_value_count == ComputeCount(filtered_sales)
           orig_total == ComputeSum(gross_sales)
           orig_count == ComputeCount(gross_sales)
       IN  printed' = [header |-> <<>>,
                       rows |-> <<>>,
                       summary |->
                          [total_records |-> orig_count,
                           high_value_records |-> high_value_count,
                           high_value_percentage |->
                               Percentage(high_value_count, orig_count),
                           high_value_sales |-> total_sales,
                           high_value_profit |-> total_profit,
                           percent_of_total_sales |->
                               Percentage(total_sales, orig_total)]]
    /\ pc' = "done"
    /\ status' = "OK"
    /\ UNCHANGED <<runVars, cmpVars>>
    /\ UNCHANGED <<analysis, tables, i, cust_to_type, geo_to_region,
                   prod_to_category, type_sales, type_profit, unique_customers,
                   order_counts, region_category_sales, sorted_results>>

\* The non-null values of an array, in order.
ValidValues(array) ==
    LET valid == SelectSeq(array, LAMBDA s : s.is_valid)
    IN  [n \in 1..Len(valid) |-> valid[n].value]

\* A statistic of arrow::compute (Quantile, Stddev, Variance, Mean) over the
\* non-null values of its argument; its number is left uninterpreted.
Statistic(function, values) == [function |-> function, over |-> values]

\* arrow::compute::Divide, element by element: null where an operand is null.
Divide(left, right) ==
    [n \in 1..Len(left) |->
        IF left[n].is_valid /\ right[n].is_valid
        THEN [is_valid |-> TRUE, value |-> DoubleDivide(left[n].value, right[n].value)]
        ELSE [is_valid |-> FALSE, value |-> 0]]

ArrowAnalyzeSalesByProduct ==
    /\ analysis = "product"
    /\ pc = "start"
    /\ LET gross_sales == GetColumnAsArray("sales_table_", "gross_sales").value
           profit == GetColumnAsArray("sales_table_", "profit").value
           quantity == GetColumnAsArray("sales_table_", "quantity").value
           profit_per_item == Divide(profit, quantity)
       IN  printed' = [header |-> <<>>,
                       rows |-> <<>>,
                       summary |->
                          [percentile_25 |-> Statistic("quantile 0.25", ValidValues(gross_sales)),
                           percentile_50 |-> Statistic("quantile 0.5", ValidValues(gross_sales)),
                           percentile_75 |-> Statistic("quantile 0.75", ValidValues(gross_sales)),
                           percentile_95 |-> Statistic("quantile 0.95", ValidValues(gross_sales)),
                           percentile_99 |-> Statistic("quantile 0.99", ValidValues(gross_sales)),
                           standard_deviation |-> Statistic("stddev", ValidValues(gross_sales)),
                           variance |-> Statistic("variance", ValidValues(gross_sales)),
                           average_profit_per_item |->
                               Statistic("mean", ValidValues(profit_per_item))]]
    /\ pc' = "done"
    /\ status' = "OK"
    /\ UNCHANGED <<runVars, cmpVars>>
    /\ UNCHANGED <<analysis, tables, i, cust_to_type, geo_to_region,
                   prod_to_category, type_sales, type_profit, unique_customers,
                   order_counts, region_category_sales, sorted_results>>

\* The time dimension: date_key with the year, quarter and month of the day.
TimeRow(k, y, q, m) ==
    [date_key |-> IntScalar(k), year |-> IntScalar(y), quarter |-> IntScalar(q),
     month |-> IntScalar(m)]
StandardTimeTable == <<TimeRow(1, 2023, 4, 12), TimeRow(2, 2024, 1, 1)>>

\* A row of fact_sales with the date key and the quantity.
FullFactRow(dk, gk, pk, sales, prof, qty) ==
    [date_key |-> dk, customer_key |-> IntScalar(1), geography_key |-> gk,
     product_key |-> pk, gross_sales |-> sales, profit |-> prof,
     quantity |-> qty]

\* Foreign keys of fact rows: null, keys of the dimension, and one key the
\* dimension does not hold.
ForeignKeys == IntScalars(Keys \cup {Cardinality(Keys) + 1})

\* gross_sales below and above the high-value threshold, or null.
SalesChoices == {NullDouble, DoubleScalar(50), DoubleScalar(150)}

\* Inputs of the three analyses: the standard dimension tables and up to
\* MaxFactRows fact rows; the key of the dimension the analysis is named
\* after is arbitrary.
CanonicalInputs ==
    /\ analysis \in {"time", "geography", "product"}
    /\ customer_table = <<>>
    /\ geography_table = StandardGeographyTable
    /\ product_table = StandardProductTable
    /\ time_table = StandardTimeTable
    /\ \E k \in 0..MaxFactRows : \E c \in [1..k -> ForeignKeys \X SalesChoices] :
          sales_table =
              [j \in 1..k |->
                  FullFactRow(IF analysis = "time" THEN c[j][1] ELSE IntScalar(1),
                              IF analysis = "geography" THEN c[j][1] ELSE IntScalar(1),
                              IF analysis = "product" THEN c[j][1] ELSE IntScalar(1),
                              c[j][2], DoubleScalar(ProfitOf(j)), IntScalar(2))]

InitCanonical ==
    /\ CanonicalInputs
    /\ schema = WellFormed
    /\ EntryAgg
    /\ RunIdle
    /\ CmpIdle

NextCanonical ==
    \/ AnalyzeSalesByTime
    \/ ArrowAnalyzeSalesByGeography
    \/ ArrowAnalyzeSalesByProduct

SpecCanonical == InitCanonical /\ [][NextCanonical]_vars

\* ------------------------------------------------------------------------
\* AnalyzeCustomerSegments and MultidimensionalAnalysis in two threads
\* ------------------------------------------------------------------------
\* Two threads of one analyzer, one in each method, on one processor. The
\* tables are members of the analyzer; the lookups, the accumulators and the
\* sorted vector are locals of the two methods and are kept in the
\* variables of their names. The registers of a thread (the method it
\* executes, its position, its loop index, its status and its output) are
\* those of the running thread; those of the other thread are saved.
Registers ==
    [analysis |-> analysis, status |-> status, pc |-> pc, i |-> i,
     printed |-> printed]

\* Variant of Switch in which the loop index is shared by the two threads.
SwitchSharingIndex ==
    /\ suspended # <<>>
    /\ suspended.pc # "done"
    /\ suspended' = Registers
    /\ analysis' = suspended.analysis
    /\ status' = suspended.status
    /\ pc' = suspended.pc
    /\ i' = i
    /\ printed' = suspended.printed
    /\ UNCHANGED <<tables, cust_to_type, geo_to_region, prod_to_category,
                   type_sales, type_profit, unique_customers, order_counts,
                   region_category_sales, sorted_results>>
    /\ UNCHANGED <<duckdb_printed, row_limit, chunks, runs, previous>>
    /\ UNCHANGED runVars

\* The scheduler suspends the running thread and resumes the other one, at
\* any point between two steps.
Switch ==
    /\ suspended # <<>>
    /\ suspended.pc # "done"
    /\ suspended' = Registers
    /\ analysis' = suspended.analysis
    /\ status' = suspended.status
    /\ pc' = suspended.pc
    /\ i' = suspended.i
    /\ printed' = suspended.printed
    /\ UNCHANGED <<tables, cust_to_type, geo_to_region, prod_to_category,
                   type_sales, type_profit, unique_customers, order_counts,
                   region_category_sales, sorted_results>>
    /\ UNCHANGED <<duckdb_printed, row_limit, chunks, runs, previous>>
    /\ UNCHANGED runVars

\* Fact rows read by both methods: any customer and geography key, null or
\* not null gross_sales.
ConcurrentFactChoices ==
    IntScalars(Keys) \X IntScalars(Keys) \X {IntScalar(1)} \X BOOLEAN \X {TRUE}

\* Tables read by both methods: one table is arbitrary, the other ones are
\* the standard tables.
ConcurrentInputs ==
    /\ product_table = StandardProductTable
    /\ time_table = <<>>
    /\ \/ /\ customer_table = StandardCustomerTable
          /\ geography_table = StandardGeographyTable
          /\ SalesTableOver(ConcurrentFactChoices, MaxFactRows)
       \/ /\ customer_table \in SeqsUpTo(CustomerRows, MaxDimRows)
          /\ geography_table = StandardGeographyTable
          /\ sales_table = StandardFactTable
       \/ /\ customer_table = StandardCustomerTable
          /\ geography_table \in SeqsUpTo(GeographyRows, MaxDimRows)
          /\ sales_table = StandardFactTable

\* Both threads are at the entry of their methods.
InitConcurrent ==
    /\ ConcurrentInputs
    /\ schema = WellFormed
    /\ analysis = "customer"
    /\ EntryAgg
    /\ suspended = [analysis |-> "multi", status |-> "none", pc |-> "start",
                    i |-> 0, printed |-> <<>>]
    /\ RunIdle
    /\ duckdb_printed = <<>>
    /\ row_limit = 0
    /\ chunks = <<>>
    /\ runs = 1
    /\ previous = <<>>

NextConcurrent ==
    \/ CustBuildLookup
    \/ CustScanRow
    \/ CustPrint
    \/ MultiBuildLookups
    \/ MultiScanRow
    \/ MultiPrint
    \/ Switch

SpecConcurrent == InitConcurrent /\ [][NextConcurrent]_vars

\* ------------------------------------------------------------------------
\* Any sequence of calls on the loaded tables
\* ------------------------------------------------------------------------
MaxCalls == 3

\* ScalarToString: arrow::Scalar::ToString of a valid scalar (the decimal
\* digits of an integer), "NULL" for a null one.
ScalarToString(scalar) == IF scalar.is_valid THEN ToString(scalar.value) ELSE "NULL"

\* The hash table JoinTables builds for the right table: the row indices
\* (from 0) of every key string.
RECURSIVE RightHashFrom(_, _, _)
RightHashFrom(right_key_array, j, right_hash) ==
    IF j >= Len(right_key_array) THEN right_hash
    ELSE LET key_str == ScalarToString(GetScalar(right_key_array, j))
         IN  RightHashFrom(right_key_array, j + 1,
                           Put(right_hash, key_str,
                               Append(At(right_hash, key_str, <<>>), j)))

\* Variant of JoinTables that reduces the left table, in place, to its rows
\* with a match in the right table.
JoinTablesInPlace ==
    /\ analysis = "join"
    /\ pc = "start"
    /\ LET right_hash ==
              RightHashFrom(GetColumnAsArray("geography_table_", "geography_key").value,
                            0, EmptyMap)
           joined ==
              SelectSeq(sales_table,
                        LAMBDA row : ScalarToString(row.geography_key) \in DOMAIN right_hash)
       IN  /\ sales_table' = joined
           /\ printed' = [header |-> <<>>, rows |-> <<>>, returned |-> joined]
    /\ pc' = "done"
    /\ status' = "OK"
    /\ UNCHANGED <<runVars, cmpVars>>
    /\ UNCHANGED <<analysis, customer_table, geography_table, product_table,
                   time_table, schema, i, cust_to_type, geo_to_region,
                   prod_to_category, type_sales, type_profit, unique_customers,
                   order_counts, region_category_sales, sorted_results>>

\* JoinTables(sales_table_, geography_table_, "geography_key",
\* "geography_key"): the key columns are fetched, the hash table of the right
\* table is built, and the left table is given back.
JoinTables ==
    /\ analysis = "join"
    /\ pc = "start"
    /\ LET right_hash ==
              RightHashFrom(GetColumnAsArray("geography_table_", "geography_key").value,
                            0, EmptyMap)
       IN  printed' = [header |-> <<>>, rows |-> <<>>, returned |-> sales_table]
    /\ pc' = "done"
    /\ status' = "OK"
    /\ UNCHANGED <<runVars, cmpVars>>
    /\ UNCHANGED <<analysis, tables, i, cust_to_type, geo_to_region,
                   prod_to_category, type_sales, type_profit, unique_customers,
                   order_counts, region_category_sales, sorted_results>>

\* PrintDataInfo of the Arrow analyzer: the row counts of the five tables.
PrintDataInfo ==
    /\ analysis = "info"
    /\ pc = "start"
    /\ printed' = [header |-> <<>>,
                   rows |-> <<>>,
                   summary |->
                      [sales_records |-> Len(sales_table),
                       time_periods |-> Len(time_table),
                       geographies |-> Len(geography_table),
                       products |-> Len(product_table),
                       customers |-> Len(customer_table)]]
    /\ pc' = "done"
    /\ UNCHANGED status
    /\ UNCHANGED <<runVars, cmpVars>>
    /\ UNCHANGED <<analysis, tables, i, cust_to_type, geo_to_region,
                   prod_to_category, type_sales, type_profit, unique_customers,
                   order_counts, region_category_sales, sorted_results>>

\* The calls an owner of the loaded analyzer can make.
Operations ==
    {"info", "time", "geography", "product", "customer", "multi", "join",
     "print_table"}

\* The call has returned and another one is made: its locals are new.
Call ==
    /\ pc = "done"
    /\ runs < MaxCalls
    /\ analysis' \in Operations
    /\ runs' = runs + 1
    /\ status' = "none"
    /\ pc' = "start"
    /\ i' = 0
    /\ cust_to_type' = EmptyMap
    /\ geo_to_region' = EmptyMap
    /\ prod_to_category' = EmptyMap
    /\ type_sales' = EmptyMap
    /\ type_profit' = EmptyMap
    /\ unique_customers' = EmptyMap
    /\ order_counts' = EmptyMap
    /\ region_category_sales' = EmptyMap
    /\ sorted_results' = <<>>
    /\ printed' = <<>>
    /\ UNCHANGED tables
    /\ UNCHANGED <<duckdb_printed, row_limit, chunks, previous, suspended>>
    /\ UNCHANGED runVars

\* The five tables right after LoadAllTables: the standard dimension tables
\* and up to MaxFactRows fact rows, in one chunk.
LoadedInputs ==
    /\ customer_table = StandardCustomerTable
    /\ geography_table = StandardGeographyTable
    /\ product_table = StandardProductTable
    /\ time_table = StandardTimeTable
    /\ \E k \in 0..MaxFactRows : \E c \in [1..k -> ForeignKeys \X SalesChoices] :
          sales_table =
              [j \in 1..k |->
                  FullFactRow(c[j][1], c[j][1], c[j][1], c[j][2],
                              DoubleScalar(ProfitOf(j)), IntScalar(2))]
    /\ chunks = IF sales_table = <<>> THEN <<>> ELSE <<Len(sales_table)>>
    /\ row_limit = MaxRowLimit

\* A first call on the loaded tables; previous keeps the tables as loaded.
InitLoaded ==
    /\ LoadedInputs
    /\ schema = WellFormed
    /\ previous = tables
    /\ analysis \in Operations
    /\ EntryAgg
    /\ RunIdle
    /\ duckdb_printed = <<>>
    /\ runs = 1
    /\ suspended = <<>>

NextLoaded ==
    \/ PrintDataInfo
    \/ AnalyzeSalesByTime
    \/ ArrowAnalyzeSalesByGeography
    \/ ArrowAnalyzeSalesByProduct
    \/ CustBuildLookup
    \/ CustScanRow
    \/ CustPrint
    \/ MultiBuildLookups
    \/ MultiScanRow
    \/ MultiPrint
    \/ JoinTables
    \/ ArrowPrintTable
    \/ Call

SpecLoaded == InitLoaded /\ [][NextLoaded]_vars

\* ------------------------------------------------------------------------
\* The time windows of the DuckDB analyzer
\* ------------------------------------------------------------------------
\* fact_sales JOIN dim_time ON s.date_key = t.date_key, with the GROUP BY
\* key (year, quarter).
JoinedQuarters ==
    {[j |-> t[1], d |-> <<t[2]>>,
      key |-> <<time_table[t[2]].year, time_table[t[2]].quarter>>] :
        t \in Join(time_table, "date_key", "date_key")}

QuarterlyQueryRows ==
    {[year |-> k[1],
      quarter |-> k[2],
      gross_sales |-> SqlSum({t \in JoinedQuarters : t.key = k}, "gross_sales"),
      profit |-> SqlSum({t \in JoinedQuarters : t.key = k}, "profit")] :
        k \in {t.key : t \in JoinedQuarters}}

\* 'Sales by Quarter (last N quarters)' of AnalyzeSalesByTime:
\* ... GROUP BY t.year, t.quarter ORDER BY t.year, t.quarter LIMIT row_limit.
DuckDBQuarterlySales ==
    /\ analysis = "quarterly"
    /\ duckdb_printed = <<>>
    /\ \E rows \in OrderBy(QuarterlyQueryRows,
                           <<<<"year", "ASC">>, <<"quarter", "ASC">>>>) :
          duckdb_printed' = [header |-> <<"year", "quarter", "gross_sales", "profit">>,
                             rows |-> Limit(rows, row_limit)]
    /\ UNCHANGED <<aggVars, runVars>>
    /\ UNCHANGED <<row_limit, chunks, runs, previous, suspended>>

\* SELECT g.region ... GROUP BY g.region ORDER BY SUM(s.gross_sales) DESC
JoinedRegions ==
    {[j |-> t[1], d |-> <<t[2]>>, key |-> geography_table[t[2]].region] :
        t \in Join(geography_table, "geography_key", "geography_key")}

RegionQueryRows ==
    {[region |-> k,
      gross_sales |-> SqlSum({t \in JoinedRegions : t.key = k}, "gross_sales")] :
        k \in {t.key : t \in JoinedRegions}}

\* Value::ToString of a VARCHAR value.
ValueToString(value) == IF value.is_valid THEN value.value ELSE "NULL"

\* fact_sales JOIN dim_time JOIN dim_geography WHERE g.region = top_region,
\* with the GROUP BY key (year, month).
JoinedMonths(top_region) ==
    {[j |-> t[1], d |-> <<t[2], g[2]>>,
      key |-> <<time_table[t[2]].year, time_table[t[2]].month>>] :
        <<t, g>> \in {<<x, y>> \in Join(time_table, "date_key", "date_key")
                                   \X Join(geography_table, "geography_key", "geography_key") :
                          /\ x[1] = y[1]
                          /\ geography_table[y[2]].region.is_valid
                          /\ geography_table[y[2]].region.value = top_region}}

MonthlyQueryRows(top_region) ==
    {[year |-> k[1],
      month |-> k[2],
      gross_sales |-> SqlSum({t \in JoinedMonths(top_region) : t.key = k}, "gross_sales")] :
        k \in {t.key : t \in JoinedMonths(top_region)}}

\* 'Monthly Sales Trend for <top region> (last N months)' of
\* MultidimensionalAnalysis: the region of the greatest total, then
\* ... GROUP BY t.year, t.month ORDER BY t.year, t.month LIMIT row_limit;
\* nothing is printed when no region is found.
DuckDBMonthlyTrend ==
    /\ analysis = "monthly"
    /\ duckdb_printed = <<>>
    /\ \E top_region_result \in OrderBy(RegionQueryRows, <<<<"gross_sales", "DESC">>>>) :
          IF Len(Limit(top_region_result, 1)) > 0
          THEN LET top_region == ValueToString(top_region_result[1].region)
               IN  \E rows \in OrderBy(MonthlyQueryRows(top_region),
                                       <<<<"year", "ASC">>, <<"month", "ASC">>>>) :
                      duckdb_printed' = [header |-> <<"year", "month", "gross_sales">>,
                                         rows |-> Limit(rows, row_limit),
                                         top_region |-> top_region]
          ELSE duckdb_printed' = [header |-> <<>>, rows |-> <<>>, top_region |-> ""]
    /\ UNCHANGED <<aggVars, runVars>>
    /\ UNCHANGED <<row_limit, chunks, runs, previous, suspended>>

\* Inputs of the two queries: the standard time and geography tables, any
\* date and geography key in up to MaxFactRows fact rows, any window length.
WindowInputs ==
    /\ analysis \in {"quarterly", "monthly"}
    /\ customer_table = <<>>
    /\ product_table = <<>>
    /\ geography_table = StandardGeographyTable
    /\ time_table = StandardTimeTable
    /\ row_limit \in 1..MaxRowLimit
    /\ chunks = <<>>
    /\ \E k \in 0..MaxFactRows :
          \E c \in [1..k -> ForeignKeys \X {IntScalar(g) : g \in Keys}] :
              sales_table =
                  [j \in 1..k |->
                      FullFactRow(c[j][1], c[j][2], IntScalar(1),
                                  DoubleScalar(SaleOf(j)), DoubleScalar(ProfitOf(j)),
                                  IntScalar(2))]

InitWindows ==
    /\ WindowInputs
    /\ schema = WellFormed
    /\ EntryAgg
    /\ RunIdle
    /\ duckdb_printed = <<>>
    /\ runs = 1
    /\ previous = <<>>
    /\ suspended = <<>>

NextWindows ==
    \/ DuckDBQuarterlySales
    \/ DuckDBMonthlyTrend

SpecWindows == InitWindows /\ [][NextWindows]_vars

\* ------------------------------------------------------------------------
\* Vocabulary of the properties
\* ------------------------------------------------------------------------
Unknown == "unknown"

RowIndices == 1..Len(sales_table)

\* The foreign key is non-null and has an entry in the lookup.
KeyResolves(key_scalar, lookup) ==
    key_scalar.is_valid /\ key_scalar.value \in DOMAIN lookup

\* The fact row j resolves through every lookup its aggregation uses.
RowResolves(j) ==
    IF analysis = "customer"
    THEN KeyResolves(sales_table[j].customer_key, cust_to_type)
    ELSE /\ KeyResolves(sales_table[j].geography_key, geo_to_region)
         /\ KeyResolves(sales_table[j].product_key, prod_to_category)

\* The group key of a fact row that resolves.
GroupOf(j) ==
    IF analysis = "customer"
    THEN cust_to_type[sales_table[j].customer_key.value]
    ELSE <<geo_to_region[sales_table[j].geography_key.value],
           prod_to_category[sales_table[j].product_key.value]>>

ResolvedRows == {j \in RowIndices : RowResolves(j)}

RowsOfGroup(g) == {j \in ResolvedRows : GroupOf(j) = g}

ResolvedGroups == {GroupOf(j) : j \in ResolvedRows}

\* Sum of a measure over a set of fact rows, a null value counting for 0.
RECURSIVE SumRows(_, _)
SumRows(S, column) ==
    IF S = {} THEN 0
    ELSE LET j == CHOOSE x \in S : TRUE
             v == sales_table[j][column]
         IN  (IF v.is_valid THEN v.value ELSE 0) + SumRows(S \ {j}, column)

\* Number of fact rows folded into some group by the scan so far.
RowsFolded ==
    IF analysis = "customer"
    THEN Accumulate([n \in 1..Len(StringKeysInOrder(DOMAIN order_counts)) |->
                        order_counts[StringKeysInOrder(DOMAIN order_counts)[n]]])
    ELSE Accumulate([n \in 1..Len(PairKeysInOrder(DOMAIN region_category_sales)) |->
                        Len(region_category_sales[
                               PairKeysInOrder(DOMAIN region_category_sales)[n]])])

\* The valid keys of a dimension table.
ValidKeys(table, key_column) ==
    {table[n][key_column].value :
        n \in {m \in 1..Len(table) : table[m][key_column].is_valid}}

\* The last row of a dimension table that carries the key k.
LastRowOf(table, key_column, k) ==
    LET rows == {n \in 1..Len(table) :
                    table[n][key_column].is_valid /\ table[n][key_column].value = k}
    IN  table[CHOOSE n \in rows : \A m \in rows : m <= n]

\* The (table, key column, attribute column, lookup) of every dimension the
\* running aggregation indexes.
Dimensions ==
    IF analysis = "customer"
    THEN {<<customer_table, "customer_key", "customer_type", cust_to_type>>}
    ELSE {<<geography_table, "geography_key", "region", geo_to_region>>,
          <<product_table, "product_key", "category", prod_to_category>>}

\* ------------------------------------------------------------------------
\* C1
\* ------------------------------------------------------------------------
\* The fact row at index i has a null foreign key or one without entry in
\* the lookup.
CurrentRowUnresolved == i < Len(sales_table) /\ ~RowResolves(i + 1)

\* C1 - Inner-join exclusion: a step of the fact scan over a row whose
\* foreign key (customer_key, or geography_key / product_key) is null or
\* has no entry in the dimension lookup leaves every group untouched: no
\* sum, no order count and no distinct-customer set changes.
C1_InnerJoinExclusion ==
    [][(pc = "scan" /\ i' = i + 1 /\ CurrentRowUnresolved)
         => UNCHANGED <<type_sales, type_profit, unique_customers,
                        order_counts, region_category_sales>>]_vars

\* A scan has ended in which a row with a dangling foreign key was passed
\* over while another row was aggregated and emitted.
C1_Witness ==
    /\ pc = "done"
    /\ printed.rows # <<>>
    /\ \E j \in RowIndices : ~RowResolves(j) /\ sales_table[j].gross_sales.is_valid
                             /\ sales_table[j].profit.is_valid
                             /\ sales_table[j].customer_key.is_valid
                             /\ sales_table[j].geography_key.is_valid
                             /\ sales_table[j].product_key.is_valid

\* ------------------------------------------------------------------------
\* C2
\* ------------------------------------------------------------------------
\* Sum of one column of the emitted rows.
EmittedTotal(column) ==
    Accumulate([n \in 1..Len(printed.rows) |-> printed.rows[n][column]])

\* C2 - Aggregation correctness: once the result is emitted, the sum of a
\* measure over all emitted groups equals the sum of that measure over the
\* raw fact rows whose foreign keys resolve in the dimension lookups.
C2_AggregationCorrectness ==
    pc = "done" =>
        IF analysis = "customer"
        THEN /\ EmittedTotal("total_sales") = SumRows(ResolvedRows, "gross_sales")
             /\ EmittedTotal("total_profit") = SumRows(ResolvedRows, "profit")
        ELSE EmittedTotal("gross_sales") = SumRows(ResolvedRows, "gross_sales")

\* ------------------------------------------------------------------------
\* C3
\* ------------------------------------------------------------------------
\* The resolved fact rows, in table order, as (region, category, sales).
ResolvedTriples ==
    LET idx == SelectSeq([j \in RowIndices |-> j], LAMBDA j : RowResolves(j))
    IN  [n \in 1..Len(idx) |->
            <<GroupOf(idx[n])[1], GroupOf(idx[n])[2],
              sales_table[idx[n]].gross_sales>>]

\* C3 - Group-by result shape: the region x category result holds exactly
\* one entry per distinct resolved (region, category) tuple, its value is
\* the sum of the sales of the rows mapped to the tuple, and the rows
\* (East,A,10), (East,A,5), (West,B,20) yield {(East,A): 15, (West,B): 20}.
C3_GroupByResultShape ==
    (pc = "done" /\ analysis = "multi") =>
        /\ {sorted_results[n][1] : n \in 1..Len(sorted_results)} = ResolvedGroups
        /\ Len(sorted_results) = Cardinality(ResolvedGroups)
        /\ \A n \in 1..Len(sorted_results) :
              sorted_results[n][2] =
                  SumRows(RowsOfGroup(sorted_results[n][1]), "gross_sales")
        /\ (ResolvedTriples = <<<<"East", "A", DoubleScalar(10)>>,
                                <<"East", "A", DoubleScalar(5)>>,
                                <<"West", "B", DoubleScalar(20)>>>>
              => sorted_results = <<<<<<"East", "A">>, 15>>, <<<<"West", "B">>, 20>>>>)

\* ------------------------------------------------------------------------
\* C4
\* ------------------------------------------------------------------------
\* C4 - Every fact row whose foreign keys resolve is folded into its group
\* for every measure, whatever the nullness of a measure value: the order
\* count and the distinct-customer set of a group cover all its resolved
\* rows, and each sum covers the non-null values of all of them.
C4_ResolvedRowsFolded ==
    pc = "done" =>
        \A g \in ResolvedGroups :
            IF analysis = "customer"
            THEN /\ g \in DOMAIN order_counts
                 /\ order_counts[g] = Cardinality(RowsOfGroup(g))
                 /\ unique_customers[g] =
                       {sales_table[j].customer_key.value : j \in RowsOfGroup(g)}
                 /\ Accumulate(type_sales[g]) = SumRows(RowsOfGroup(g), "gross_sales")
                 /\ Accumulate(type_profit[g]) = SumRows(RowsOfGroup(g), "profit")
            ELSE /\ g \in DOMAIN region_category_sales
                 /\ Accumulate(region_category_sales[g]) =
                       SumRows(RowsOfGroup(g), "gross_sales")

\* ------------------------------------------------------------------------
\* C5
\* ------------------------------------------------------------------------
\* The foreign key has no corresponding row in the dimension table.
NoDimensionEntry(key_scalar, table, key_column) ==
    ~(key_scalar.is_valid /\ key_scalar.value \in ValidKeys(table, key_column))

\* Fact rows one of whose foreign keys has no corresponding dimension entry.
UnresolvedKeyRows ==
    IF analysis = "customer"
    THEN {j \in RowIndices :
            NoDimensionEntry(sales_table[j].customer_key, customer_table, "customer_key")}
    ELSE {j \in RowIndices :
            \/ NoDimensionEntry(sales_table[j].geography_key, geography_table,
                                "geography_key")
            \/ NoDimensionEntry(sales_table[j].product_key, product_table,
                                "product_key")}

\* C5 - Row accounting: after the pass the number of contributing fact rows
\* is at most the number of input rows, and the gap is exactly the number
\* of fact rows whose foreign key has no corresponding dimension entry.
C5_RowAccounting ==
    pc = "done" =>
        /\ RowsFolded <= Len(sales_table)
        /\ Len(sales_table) - RowsFolded = Cardinality(UnresolvedKeyRows)

\* ------------------------------------------------------------------------
\* C6
\* ------------------------------------------------------------------------
\* C6 - Excluded-row diagnostics: the pass exposes a 'records excluded'
\* count equal to the number of fact rows dropped for an unresolved foreign
\* key (1 for a 3-row input with one nonexistent key, the 2 other rows
\* being aggregated).
C6_RecordsExcluded ==
    pc = "done" =>
        /\ "records_excluded" \in DOMAIN printed
        /\ printed["records_excluded"] = Cardinality(UnresolvedKeyRows)
        /\ (Len(sales_table) = 3 /\ Cardinality(UnresolvedKeyRows) = 1
              => printed["records_excluded"] = 1 /\ RowsFolded = 2)

\* ------------------------------------------------------------------------
\* C7
\* ------------------------------------------------------------------------
\* C7 - Null dimension attribute: once the lookups are built, every
\* dimension row with a valid key is indexed (only rows with a null key are
\* not), a key whose row has a null attribute resolves to the 'unknown'
\* sentinel, and the fact rows carrying such a key are aggregated under the
\* 'unknown' group.
C7_NullAttributeUnknown ==
    /\ pc \in {"scan", "done"} =>
          \A d \in Dimensions :
              /\ DOMAIN d[4] = ValidKeys(d[1], d[2])
              /\ \A k \in ValidKeys(d[1], d[2]) :
                    ~LastRowOf(d[1], d[2], k)[d[3]].is_valid => d[4][k] = Unknown
    /\ (pc = "done" /\ analysis = "customer") =>
          \A j \in RowIndices :
              LET row == sales_table[j]
              IN  (/\ row.customer_key.is_valid
                   /\ row.gross_sales.is_valid
                   /\ row.profit.is_valid
                   /\ row.customer_key.value \in ValidKeys(customer_table, "customer_key")
                   /\ ~LastRowOf(customer_table, "customer_key",
                                 row.customer_key.value).customer_type.is_valid)
                  => /\ Unknown \in DOMAIN unique_customers
                     /\ row.customer_key.value \in unique_customers[Unknown]

\* ------------------------------------------------------------------------
\* C8
\* ------------------------------------------------------------------------
\* The attribute a dimension row resolves to.
AttributeOf(attr_scalar) ==
    IF attr_scalar.is_valid THEN attr_scalar.value ELSE Unknown

\* C8 - Dimension index uniqueness: once a lookup is built, every key
\* present in the dimension table maps to exactly one attribute value, the
\* attribute of the last row of the table that carries the key.
C8_LastWriteWins ==
    pc \in {"scan", "done"} =>
        \A d \in Dimensions :
            \A k \in ValidKeys(d[1], d[2]) :
                /\ k \in DOMAIN d[4]
                /\ d[4][k] = AttributeOf(LastRowOf(d[1], d[2], k)[d[3]])

\* ------------------------------------------------------------------------
\* C9
\* ------------------------------------------------------------------------
\* The analyses RunAllAnalyses of the running backend is to execute.
ConfiguredAnalyses ==
    IF backend = "arrow" THEN ArrowAnalyses ELSE DuckDBAnalyses

\* C9 - Orchestrator error isolation: when an analysis fails, every later
\* configured analysis is still executed and the value returned at the end
\* of the run reports the failure.
C9_ErrorIsolation ==
    (run_pc = "done" /\ failed # {}) =>
        /\ AnalysesStarted = ConfiguredAnalyses
        /\ result = "error"

\* ------------------------------------------------------------------------
\* C10
\* ------------------------------------------------------------------------
\* A load or a registration was attempted and failed.
LoadFailed == \E n \in 1..Len(attempted) : attempted[n] \notin loaded

AllTables == {TableOrder[n] : n \in 1..Len(TableOrder)}

\* C10 - Load failure is fatal: after a failed load or registration the
\* run is over, has made no PrintDataInfo and no analysis call and returns
\* a failure; PrintDataInfo and the analyses only ever start with the five
\* tables loaded.
C10_LoadFailureFatal ==
    /\ LoadFailed => (run_pc = "done" /\ calls = <<>> /\ result = "error")
    /\ calls # <<>> => (loaded = AllTables /\ ~LoadFailed)
    /\ run_pc \in {"info", "analyses"} => loaded = AllTables

\* The third table failed to load and the run ended there with a failure.
C10_Witness ==
    /\ run_pc = "done"
    /\ LoadFailed
    /\ Len(attempted) = 3
    /\ loaded = {"fact_sales", "dim_time"}
    /\ result = "error"

\* ------------------------------------------------------------------------
\* C11
\* ------------------------------------------------------------------------
\* C11 - Failures are not masked: an analysis in which a step failed does
\* not give back success, and a run of RunAllAnalyses in which some
\* analysis step failed does not return success.
C11_FailuresNotMasked ==
    /\ \A n \in 1..Len(returned) :
          AnalysesStarted[n] \in failed => returned[n] # "ok"
    /\ (run_pc = "done" /\ failed # {}) => result = "error"

\* ------------------------------------------------------------------------
\* C12
\* ------------------------------------------------------------------------
\* A column the running aggregation fetches does not exist in its table.
AbsentColumn == schema.absent \cap ColumnsUsed # {}

\* No lookup entry, no accumulator entry, no sorted result, no output row.
NothingAggregated ==
    /\ cust_to_type = EmptyMap
    /\ geo_to_region = EmptyMap
    /\ prod_to_category = EmptyMap
    /\ type_sales = EmptyMap
    /\ type_profit = EmptyMap
    /\ unique_customers = EmptyMap
    /\ order_counts = EmptyMap
    /\ region_category_sales = EmptyMap
    /\ sorted_results = <<>>
    /\ printed = <<>>

\* C12 - Missing column: when a column fetched by the aggregation does not
\* exist in its table, the aggregation never enters its loops, does not
\* crash, ends with the error status Invalid and emits no aggregated row.
C12_MissingColumn ==
    AbsentColumn =>
        /\ pc \in {"start", "done"}
        /\ pc = "start" => status = "none"
        /\ pc = "done" => status = "Invalid"
        /\ NothingAggregated

\* The aggregation has returned Invalid for the last column it fetches,
\* category of dim_product, all tables holding rows.
C12_Witness ==
    /\ analysis = "multi"
    /\ schema.absent = {<<"product_table_", "category">>}
    /\ pc = "done"
    /\ status = "Invalid"
    /\ sales_table # <<>>
    /\ geography_table # <<>>
    /\ product_table # <<>>

\* ------------------------------------------------------------------------
\* C13
\* ------------------------------------------------------------------------
\* A column the running aggregation fetches has another type than the
\* scalar class the aggregation casts its cells to.
MistypedColumn == schema.mistyped \cap ColumnsUsed # {}

\* C13 - Type mismatch: when a column used by the aggregation exists with
\* an incompatible type, the aggregation fails with an error status before
\* it indexes or folds any row: it never enters its loops, where the values
\* are read under the wrong type, and it neither succeeds nor crashes.
C13_TypeMismatchFails ==
    MistypedColumn =>
        /\ pc \in {"start", "done"}
        /\ pc = "start" => status = "none"
        /\ pc = "done" => status \notin {"OK", "crashed"}
        /\ NothingAggregated

\* ------------------------------------------------------------------------
\* C14
\* ------------------------------------------------------------------------
NoData == "no data"

\* C14 - Guarded average: an average over zero counted rows is emitted as
\* the 'no data' marker and no division by zero is performed, for the
\* 'Average Sale' of AnalyzeSalesByTime and for the per-group averages of
\* the customer-segment table.
C14_GuardedAverage ==
    /\ (analysis = "time" /\ pc = "done") =>
          /\ printed.summary.average_sale \notin {"nan", "inf", "-inf"}
          /\ printed.summary.total_sales_records = 0
                => printed.summary.average_sale = NoData
    /\ (analysis = "customer" /\ pc = "done" /\ status = "OK") =>
          \A n \in 1..Len(printed.rows) :
              /\ printed.rows[n].avg_sales_per_order[2] # 0
              /\ printed.rows[n].avg_profit_per_order[2] # 0

\* ------------------------------------------------------------------------
\* C15
\* ------------------------------------------------------------------------
\* The fact rows the customer-segment scan aggregated into a customer type:
\* rows without null whose customer_key is indexed to the type.
AggregatedRows(type) ==
    {j \in RowIndices :
        /\ sales_table[j].customer_key.is_valid
        /\ sales_table[j].gross_sales.is_valid
        /\ sales_table[j].profit.is_valid
        /\ sales_table[j].customer_key.value \in DOMAIN cust_to_type
        /\ cust_to_type[sales_table[j].customer_key.value] = type}

\* C15 - Exact distinct count: for every customer type emitted,
\* unique_customers is the exact number of distinct customer_key values
\* among the fact rows aggregated into the type.
C15_ExactDistinctCount ==
    (analysis = "customer" /\ pc = "done" /\ status = "OK") =>
        \A n \in 1..Len(printed.rows) :
            printed.rows[n].unique_customers =
                Cardinality({sales_table[j].customer_key.value :
                               j \in AggregatedRows(printed.rows[n].customer_type)})

\* A customer type was emitted with two orders of one and the same
\* customer, counted once.
C15_Witness ==
    /\ analysis = "customer"
    /\ pc = "done"
    /\ \E n \in 1..Len(printed.rows) :
          /\ printed.rows[n].unique_customers = 1
          /\ Cardinality(AggregatedRows(printed.rows[n].customer_type)) = 2

\* ------------------------------------------------------------------------
\* C16
\* ------------------------------------------------------------------------
\* Lexicographic order of two tuples of strings of one length, component by
\* component.
TupleBefore(a, b) ==
    \E k \in 1..Len(a) :
        /\ \A m \in 1..(k - 1) : a[m] = b[m]
        /\ StringLess(a[k], b[k])

\* The (region, category) tuple of the n-th emitted row.
EmittedTuple(n) == <<printed.rows[n].region, printed.rows[n].category>>

\* C16 - Output order: the rows of the region x category cross-tabulation
\* are emitted in strictly ascending lexicographic order of the (region,
\* category) tuple, region first, and no two rows carry the same tuple.
C16_OutputOrder ==
    (analysis = "multi" /\ pc = "done" /\ status = "OK") =>
        /\ \A n \in 1..(Len(printed.rows) - 1) :
              TupleBefore(EmittedTuple(n), EmittedTuple(n + 1))
        /\ \A n, m \in 1..Len(printed.rows) :
              EmittedTuple(n) = EmittedTuple(m) => n = m

\* Two rows of one region were emitted, ordered by their categories, the
\* fact row of the second one coming first in the fact table.
C16_Witness ==
    /\ analysis = "multi"
    /\ pc = "done"
    /\ Len(printed.rows) = 2
    /\ printed.rows[1].region = printed.rows[2].region
    /\ 1 \in ResolvedRows
    /\ GroupOf(1) = EmittedTuple(2)

\* ------------------------------------------------------------------------
\* C17
\* ------------------------------------------------------------------------
Min(a, b) == IF a < b THEN a ELSE b

\* The rows are the first rows of a sequence that holds every row of the
\* set once, sorted by descending gross_sales.
TopBySales(rows, all) ==
    /\ \A n \in 1..Len(rows) : rows[n] \in all
    /\ \A n, m \in 1..Len(rows) : rows[n] = rows[m] => n = m
    /\ \A n \in 1..(Len(rows) - 1) :
          rows[n].gross_sales.value >= rows[n + 1].gross_sales.value
    /\ \A r \in all \ {rows[n] : n \in 1..Len(rows)} :
          \A n \in 1..Len(rows) : rows[n].gross_sales.value >= r.gross_sales.value

\* C17 - Row-limit truncation: a row limit k on a result of n rows yields
\* exactly min(k, n) rows, the first k rows of the sorted sequence: the
\* first rows of the table given to PrintTable, and the top-k by descending
\* gross_sales of the country groups of the top-N query.
C17_RowLimitTruncation ==
    /\ (analysis = "print_table" /\ pc = "done") =>
          /\ Len(printed.rows) = Min(row_limit, Len(sales_table))
          /\ \A r \in 1..Len(printed.rows) : \A c \in DOMAIN sales_table[r] :
                /\ printed.rows[r][c].ok
                /\ printed.rows[r][c].scalar = sales_table[r][c]
    /\ (analysis = "top_countries" /\ duckdb_printed # <<>>) =>
          /\ Len(duckdb_printed.rows) = Min(row_limit, Cardinality(CountryQueryRows))
          /\ TopBySales(duckdb_printed.rows, CountryQueryRows)

\* ------------------------------------------------------------------------
\* C18
\* ------------------------------------------------------------------------
\* C18 - Deterministic tie-break: two result rows with equal values of the
\* sort key are emitted in the lexicographic order of their remaining
\* group-key component: customer types of equal total sales by name,
\* categories of one region and equal gross sales by name (DuckDB), and the
\* categories of one region by name (Arrow).
C18_DeterministicTieBreak ==
    /\ (analysis = "customer" /\ duckdb_printed # <<>>) =>
          \A n \in 1..(Len(duckdb_printed.rows) - 1) :
              duckdb_printed.rows[n].total_sales = duckdb_printed.rows[n + 1].total_sales
                 => AscBefore(duckdb_printed.rows[n].customer_type,
                              duckdb_printed.rows[n + 1].customer_type)
    /\ (analysis = "multi" /\ duckdb_printed # <<>>) =>
          \A n \in 1..(Len(duckdb_printed.rows) - 1) :
              (/\ duckdb_printed.rows[n].region = duckdb_printed.rows[n + 1].region
               /\ duckdb_printed.rows[n].gross_sales =
                     duckdb_printed.rows[n + 1].gross_sales)
                 => AscBefore(duckdb_printed.rows[n].category,
                              duckdb_printed.rows[n + 1].category)
    /\ (analysis = "multi" /\ pc = "done") =>
          \A n \in 1..(Len(printed.rows) - 1) :
              printed.rows[n].region = printed.rows[n + 1].region
                 => StringLess(printed.rows[n].category, printed.rows[n + 1].category)

\* ------------------------------------------------------------------------
\* C19
\* ------------------------------------------------------------------------
\* The group keys of the rows emitted by the Arrow aggregation and by the
\* DuckDB query, in the order of emission.
ArrowGroupKeys ==
    [n \in 1..Len(printed.rows) |->
        IF analysis = "customer" THEN StringScalar(printed.rows[n].customer_type)
        ELSE <<StringScalar(printed.rows[n].region),
               StringScalar(printed.rows[n].category)>>]
DuckDBGroupKeys ==
    [n \in 1..Len(duckdb_printed.rows) |->
        IF analysis = "customer" THEN duckdb_printed.rows[n].customer_type
        ELSE <<duckdb_printed.rows[n].region, duckdb_printed.rows[n].category>>]

\* C19 - Backend consistency: on the same tables the Arrow and the DuckDB
\* backend emit the same column names, the same set of groups and the same
\* row order, for the customer-type table and for the region x category
\* cross-tabulation.
C19_BackendConsistency ==
    (pc = "done" /\ duckdb_printed # <<>>) =>
        /\ duckdb_printed.header = printed.header
        /\ {DuckDBGroupKeys[n] : n \in 1..Len(DuckDBGroupKeys)} =
              {ArrowGroupKeys[n] : n \in 1..Len(ArrowGroupKeys)}
        /\ DuckDBGroupKeys = ArrowGroupKeys

Canonical ==
    CASE analysis = "time" ->
            [table |-> time_table, key |-> "date_key", attribute |-> "year"]
      [] analysis = "geography" ->
            [table |-> geography_table, key |-> "geography_key", attribute |-> "region"]
      [] analysis = "product" ->
            [table |-> product_table, key |-> "product_key", attribute |-> "category"]

\* The attribute values of the fact rows whose key resolves.
CanonicalGroups ==
    {Canonical.table[d][Canonical.attribute] :
        d \in {d \in 1..Len(Canonical.table) :
                  \E j \in RowIndices :
                      /\ sales_table[j][Canonical.key].is_valid
                      /\ sales_table[j][Canonical.key] = Canonical.table[d][Canonical.key]}}

\* C21 - Canonical analyses are grouped: 'sales by time period', 'sales by
\* region' and 'sales by product category' emit one aggregated row per
\* distinct value of the dimension attribute among the fact rows whose key
\* resolves.
C21_CanonicalAnalysesGrouped ==
    (analysis \in {"time", "geography", "product"} /\ pc = "done") =>
        /\ Len(printed.rows) = Cardinality(CanonicalGroups)
        /\ {printed.rows[n].group : n \in 1..Len(printed.rows)} = CanonicalGroups

\* ------------------------------------------------------------------------
\* C22
\* ------------------------------------------------------------------------
\* The rows AnalyzeCustomerSegments emits when it runs alone on the tables:
\* the fold of all fact rows from empty accumulators, one line per type.
RECURSIVE CustScanFrom(_, _)
CustScanFrom(acc, j) ==
    IF j >= Len(sales_table) THEN acc
    ELSE CustScanFrom(
             CustFold(acc,
                      BuildLookup(GetColumnAsArray("customer_table_", "customer_key").value,
                                  GetColumnAsArray("customer_table_", "customer_type").value),
                      sales_table[j + 1].customer_key,
                      sales_table[j + 1].gross_sales,
                      sales_table[j + 1].profit),
             j + 1)

CustomerAlone ==
    LET acc == CustScanFrom([type_sales |-> EmptyMap, type_profit |-> EmptyMap,
                             unique_customers |-> EmptyMap,
                             order_counts |-> EmptyMap], 0)
        order == StringKeysInOrder(DOMAIN acc.type_sales)
    IN  [header |-> CustomerHeader,
         rows |-> [n \in 1..Len(order) |->
                     [customer_type |-> order[n],
                      total_sales |-> Accumulate(acc.type_sales[order[n]]),
                      avg_sales_per_order |->
                          <<Accumulate(acc.type_sales[order[n]]),
                            acc.order_counts[order[n]]>>,
                      total_profit |-> Accumulate(acc.type_profit[order[n]]),
                      avg_profit_per_order |->
                          <<Accumulate(acc.type_profit[order[n]]),
                            acc.order_counts[order[n]]>>,
                      unique_customers |->
                          Cardinality(acc.unique_customers[order[n]])]]]

\* The rows MultidimensionalAnalysis emits when it runs alone on the tables.
RECURSIVE MultiScanFrom(_, _)
MultiScanFrom(acc, j) ==
    IF j >= Len(sales_table) THEN acc
    ELSE MultiScanFrom(
             MultiFold(acc,
                       BuildLookup(GetColumnAsArray("geography_table_", "geography_key").value,
                                   GetColumnAsArray("geography_table_", "region").value),
                       BuildLookup(GetColumnAsArray("product_table_", "product_key").value,
                                   GetColumnAsArray("product_table_", "category").value),
                       sales_table[j + 1].geography_key,
                       sales_table[j + 1].product_key,
                       sales_table[j + 1].gross_sales),
             j + 1)

MultiAlone ==
    LET acc == MultiScanFrom(EmptyMap, 0)
        order == PairKeysInOrder(DOMAIN acc)
        results == Sort([n \in 1..Len(order) |-> <<order[n], Accumulate(acc[order[n]])>>])
    IN  [header |-> MultiHeader,
         rows |-> [n \in 1..Len(results) |->
                     [region |-> results[n][1][1], category |-> results[n][1][2],
                      gross_sales |-> results[n][2]]]]

Alone(name) == IF name = "customer" THEN CustomerAlone ELSE MultiAlone

\* The registers of the thread that executes the method of that name.
ThreadOf(name) == IF analysis = name THEN Registers ELSE suspended

\* The locals of the method of that name.
LocalsOf(name) ==
    IF name = "customer"
    THEN <<cust_to_type, type_sales, type_profit, unique_customers, order_counts>>
    ELSE <<geo_to_region, prod_to_category, region_category_sales, sorted_results>>

\* A step of the running thread writes neither the tables, nor the locals or
\* the registers of the other thread.
IsolatedStep ==
    analysis' = analysis =>
        /\ tables' = tables
        /\ suspended' = suspended
        /\ LocalsOf(suspended.analysis)' = LocalsOf(suspended.analysis)

C23_DatasetsImmutable ==
    /\ [][tables' = tables]_vars
    /\ [](tables = previous)

\* The third call, a JoinTables on a fact table with rows, has returned after
\* the two earlier calls.
C23_Witness ==
    /\ runs = MaxCalls
    /\ analysis = "join"
    /\ pc = "done"
    /\ Len(sales_table) >= 1
    /\ \E j \in RowIndices : ~sales_table[j].geography_key.is_valid

\* ------------------------------------------------------------------------
\* C24
\* ------------------------------------------------------------------------
\* The (year, quarter) or (year, month) period of the row x is earlier than
\* that of the row y.
PeriodBefore(x, y) ==
    LET sub == IF analysis = "quarterly" THEN "quarter" ELSE "month"
    IN  \/ x.year.value < y.year.value
        \/ x.year.value = y.year.value /\ x[sub].value < y[sub].value

\* The groups of the query whose window is printed.
WindowGroups ==
    IF analysis = "quarterly" THEN QuarterlyQueryRows
    ELSE MonthlyQueryRows(duckdb_printed.top_region)

\* C24 - Most-recent windows: 'Sales by Quarter (last N quarters)' holds the N
\* most recent (year, quarter) groups and 'Monthly Sales Trend for <top
\* region> (last N months)' the N most recent (year, month) groups of that
\* region: when there are more than N groups, the groups left out are earlier
\* than every group emitted.
C24_MostRecentWindows ==
    (analysis \in {"quarterly", "monthly"} /\ duckdb_printed # <<>>) =>
        LET emitted == {duckdb_printed.rows[n] : n \in 1..Len(duckdb_printed.rows)}
        IN  /\ emitted \subseteq WindowGroups
            /\ Cardinality(emitted) = Min(row_limit, Cardinality(WindowGroups))
            /\ \A x \in WindowGroups \ emitted : \A y \in emitted : PeriodBefore(x, y)

\* ------------------------------------------------------------------------
\* C25
\* ------------------------------------------------------------------------
\* C25 - Accumulator consistency in AnalyzeCustomerSegments: after any prefix
\* of the fact rows the maps type_sales, type_profit, unique_customers and
\* order_counts have the same key set, and for every type of it
\* order_counts[type] = length(type_sales[type]) = length(type_profit[type])
\* >= 1 and 1 <= |unique_customers[type]| <= order_counts[type]; every
\* emitted group has a contributing row and its averages divide by a
\* positive count.
C25_AccumulatorConsistency ==
    analysis = "customer" =>
        /\ DOMAIN type_profit = DOMAIN type_sales
        /\ DOMAIN unique_customers = DOMAIN type_sales
        /\ DOMAIN order_counts = DOMAIN type_sales
        /\ \A type \in DOMAIN type_sales :
              /\ order_counts[type] = Len(type_sales[type])
              /\ order_counts[type] = Len(type_profit[type])
              /\ order_counts[type] >= 1
              /\ Cardinality(unique_customers[type]) >= 1
              /\ Cardinality(unique_customers[type]) <= order_counts[type]
        /\ (pc = "done" /\ status = "OK") =>
              /\ Len(printed.rows) = Cardinality(DOMAIN type_sales)
              /\ \A n \in 1..Len(printed.rows) :
                    /\ printed.rows[n].customer_type \in DOMAIN type_sales
                    /\ printed.rows[n].avg_sales_per_order[2] >= 1
                    /\ printed.rows[n].avg_profit_per_order[2] >= 1

\* The scan has folded two rows of one customer into one type.
C25_Witness ==
    /\ analysis = "customer"
    /\ pc = "scan"
    /\ i >= 2
    /\ \E type \in DOMAIN type_sales :
          /\ order_counts[type] = 2
          /\ Cardinality(unique_customers[type]) = 1

\* ------------------------------------------------------------------------
\* C26
\* ------------------------------------------------------------------------
LoadingOrder ==
    <<"fact_sales", "dim_time", "dim_geography", "dim_product", "dim_customer">>

\* The tables attempted before the last attempt.
AttemptedBeforeLast == {attempted[n] : n \in 1..(Len(attempted) - 1)}

\* C26 - Loading order and partial state: LoadAllTables and
\* RegisterParquetTables attempt the five files in the order fact_sales,
\* dim_time, dim_geography, dim_product, dim_customer and stop at the first
\* failure with an error; the tables after the failing one are never
\* attempted and stay unset, the tables before it stay set, and the loading
\* succeeds only with all five tables set.
C26_LoadingOrder ==
    /\ [](/\ Len(attempted) <= Len(LoadingOrder)
          /\ \A n \in 1..Len(attempted) : attempted[n] = LoadingOrder[n]
          /\ AttemptedBeforeLast \subseteq loaded
          /\ loaded \subseteq {attempted[n] : n \in 1..Len(attempted)}
          /\ LoadFailed =>
                /\ loaded = AttemptedBeforeLast
                /\ run_pc = "done"
                /\ result = "error"
          /\ run_pc \in {"info", "analyses"} =>
                loaded = {LoadingOrder[n] : n \in 1..Len(LoadingOrder)})
    /\ [][/\ loaded \subseteq loaded'
          /\ LoadFailed => attempted' = attempted]_vars

\* The registration of the fourth view has failed: the run of the DuckDB
\* analyzer is over with the first three views registered.
C26_Witness ==
    /\ backend = "duckdb"
    /\ run_pc = "done"
    /\ Len(attempted) = 4
    /\ loaded = {"fact_sales", "dim_time", "dim_geography"}
    /\ result = "error"

====
